---- MODULE Spec2Model ----
(***************************************************************************)
(* Model of the brick viewer of src/script.js: the brick catalog           *)
(* (BRICK_DEFINITIONS, getBrickDefinition, isTopHole), clearStructure,     *)
(* buildStructure with its breadth-first placement loop, cycleStructure    *)
(* and the data load of init.                                              *)
(*                                                                         *)
(* Lengths are integers in tenths of a scene unit (STUD_SIZE 2 is 20,      *)
(* PLATE_HEIGHT 2.4 is 24), so that every offset of the catalog is an      *)
(* integer.  Every rotation the build produces is a rotation about the Y   *)
(* axis, so a quaternion is modelled by its yaw angle in degrees modulo    *)
(* 360; orientations are multiples of 90 degrees.  Floating-point rounding *)
(* is not modelled.                                                        *)
(***************************************************************************)
EXTENDS Integers, Sequences, FiniteSets, TLC

VARIABLES
    pc,                 \* "loading": init awaits the fetch; "idle": no handler runs; "bfs": inside the while loop of buildStructure
    caller,             \* who called the running buildStructure: "init" or "cycle"
    jsonData,           \* the loaded structures (<<>> until the fetch completes)
    currentJsonIndex,   \* index of the displayed structure (0-based as in the code)
    cycleBtnDisabled,   \* the disabled flag of the cycle button
    basePlateMesh,      \* <<>> for null, or <<mesh>>
    structureGroup,     \* structureGroup.children, in insertion order
    bricksById,         \* own properties of the bricksById object of the running/last build
    threeMeshes,        \* own properties of threeMeshes
    processedBrickIds,  \* own property names of processedBrickIds
    queue,              \* the BFS queue (raw ids as pushed)
    cur,                \* <<>> or <<id>>: the brick whose holes forEach is iterating
    holeIdx,            \* index (1-based) of the next hole that forEach visits
    outcome,            \* how the last buildStructure call ended: "none", "running", "ok", "notArray", "missingBase", "thrown"
    lookups,            \* history: the ids looked up in bricksById at the connected-brick lookup, in order
    edges,              \* history: the connections that placed a brick, in order
    visits,             \* history: every top-socket connection the build examined, in order
    pushed,             \* history: the ids pushed onto the queue (as strings), in order
    structureData,      \* history: the argument of the running/last buildStructure call
    firstBuilt,         \* history: for every record list built so far, how its first build ended
    clickedWhileLoading, \* history: cycleStructure has run while init awaited the fetch
    cycledFrom,         \* history, clone variants: <<>> or what the page was like when the last cycleStructure call reached clearStructure
    catalogQuery,       \* <<>> or the brick type and hole id a caller asks the catalog about
    catalogAnswer,      \* <<>> or what the catalog has returned for catalogQuery so far
    selectedStructureGroup, \* clone variants: FALSE for null, TRUE when it points to structureGroup
    activeCloneGroup,   \* clone variants: <<>> for null, or <<group>>: the clone group being moved
    isMovingCloneGroup, \* clone variants: the moving flag
    controlsEnabled,    \* clone variants: controls.enabled of the camera controls
    userPlacedGroups,   \* clone variants: the placed clone groups, in placement order
    sceneClones,        \* clone variants: the ids of the clone groups that are children of the scene
    meshMaterial,       \* clone variants: the material of each child of structureGroup
    originalMaterialsMap, \* clone variants: child index (uuid) -> the material saved for it
    selectedOriginal,   \* script3.js: <<>> for null, or <<i>>: child i of structureGroup is selected
    activeClone,        \* script3.js: <<>> for null, or <<mesh>>: the clone being moved
    isMovingClone,      \* script3.js: the moving flag
    originalSelectedMaterial, \* script3.js: <<>> for null, or <<material>>
    originalCloneMaterial,    \* script3.js: <<>> for null, or <<material>>
    userBricks,         \* script2.js, script3.js: the placed clones, children of the scene, in placement order
    isDragging,         \* script2.js: the dragging flag
    clonedMesh,         \* script2.js: <<>> for null, or <<mesh>>: the clone being dragged
    originalDraggedMaterial   \* script2.js: <<>> for null, or <<material>>

vars == <<pc, caller, jsonData, currentJsonIndex, cycleBtnDisabled, basePlateMesh,
          structureGroup, bricksById, threeMeshes, processedBrickIds, queue, cur,
          holeIdx, outcome, lookups, edges, visits, pushed, structureData, firstBuilt,
          clickedWhileLoading, cycledFrom, catalogQuery, catalogAnswer, selectedStructureGroup, activeCloneGroup,
          isMovingCloneGroup, controlsEnabled, userPlacedGroups, sceneClones, meshMaterial,
          originalMaterialsMap, selectedOriginal, activeClone, isMovingClone,
          originalSelectedMaterial, originalCloneMaterial, userBricks, isDragging, clonedMesh,
          originalDraggedMaterial>>

sceneVars == <<basePlateMesh, structureGroup>>
catalogVars == <<catalogQuery, catalogAnswer>>
uiVars == <<selectedStructureGroup, activeCloneGroup, isMovingCloneGroup, controlsEnabled,
            userPlacedGroups, sceneClones, meshMaterial, originalMaterialsMap>>
s3Vars == <<selectedOriginal, activeClone, isMovingClone, originalSelectedMaterial,
            originalCloneMaterial>>
s2Vars == <<isDragging, clonedMesh, originalDraggedMaterial>>
variantVars == <<s3Vars, s2Vars, userBricks>>
programState == <<pc, caller, jsonData, currentJsonIndex, cycleBtnDisabled, outcome, firstBuilt,
                  basePlateMesh, structureGroup, bricksById, threeMeshes, processedBrickIds,
                  queue, cur, holeIdx, lookups, edges, visits, pushed, structureData>>
buildVars == <<bricksById, threeMeshes, processedBrickIds, queue, cur, holeIdx, lookups, edges,
               visits, pushed, structureData>>

----------------------------------------------------------------------------
(* Bounds of the model.                                                    *)

MaxTurns == 3          \* orientations are 0, 90, ..., 90 * MaxTurns
MaxStructures == 2     \* structures.json holds at most this many structures in ViewerSpec
MaxHoleId == 17        \* the catalog is asked about the hole ids 0..MaxHoleId in CatalogSpec
MaxClones == 2         \* CloneSpec: at most this many clone groups exist at a time
MaxShift == 1          \* CloneSpec: a clone is moved at most this many studs away from its start

----------------------------------------------------------------------------
(* JavaScript values.  A brick id or a brick reference arrives from JSON   *)
(* as a number or as a string.                                             *)

Num(n) == [num |-> n]
Str(s) == [str |-> s]

Digit(d) ==
    CASE d = 0 -> "0" [] d = 1 -> "1" [] d = 2 -> "2" [] d = 3 -> "3" [] d = 4 -> "4"
      [] d = 5 -> "5" [] d = 6 -> "6" [] d = 7 -> "7" [] d = 8 -> "8" [] d = 9 -> "9"

RECURSIVE NatStr(_)
NatStr(n) == IF n < 10 THEN Digit(n) ELSE NatStr(n \div 10) \o Digit(n % 10)

\* faulty variant: a number is not turned into its decimal string and stays
\* distinct from every string of the input
String_NumberKept(v) ==
    IF "str" \in DOMAIN v THEN v.str
    ELSE IF v.num < 0 THEN "number -" \o NatStr(-v.num) ELSE "number " \o NatStr(v.num)

\* String(v) of JavaScript for a string or an integer number.
String(v) ==
    IF "str" \in DOMAIN v THEN v.str
    ELSE IF v.num < 0 THEN "-" \o NatStr(-v.num) ELSE NatStr(v.num)

\* Property names that every object literal {} inherits from Object.prototype;
\* obj[k] is a truthy function for such a k even when k is not an own property.
ObjectPrototypeKeys == {"constructor", "toString"}

----------------------------------------------------------------------------
(* Brick catalog.                                                          *)

STUD_SIZE == 20
PLATE_HEIGHT == 24

BRICK_DEFINITIONS == {"base", "3x1", "2x1", "1x1"}

\* faulty variant: a type without entry gets the definition of the 1x1 brick
getBrickDefinition_DefaultsTo1x1(brickType) ==
    IF brickType \in BRICK_DEFINITIONS THEN [kind |-> "def", type |-> brickType]
    ELSE [kind |-> "def", type |-> "1x1"]

\* BRICK_DEFINITIONS[brickType]: the definition, an inherited non-definition
\* value (truthy, without HoleOffsets), or undefined.
getBrickDefinition(brickType) ==
    IF brickType \in BRICK_DEFINITIONS THEN [kind |-> "def", type |-> brickType]
    ELSE IF brickType \in ObjectPrototypeKeys THEN [kind |-> "inherited", type |-> brickType]
    ELSE [kind |-> "undefined", type |-> brickType]

Truthy(def) == def.kind # "undefined"
HasHoleOffsets(def) == def.kind = "def"

\* faulty variant: the bottom holes are listed as top holes too
TopHoleIds_WithBottom(type) ==
    CASE type = "3x1" -> {0, 1, 2, 3, 4, 5}
      [] type = "2x1" -> {0, 1, 2, 3}
      [] type = "1x1" -> {0, 1}
      [] OTHER -> {}

TopHoleIds(type) ==
    CASE type = "3x1" -> {0, 1, 2}
      [] type = "2x1" -> {0, 1}
      [] type = "1x1" -> {0}
      [] OTHER -> {}

BottomHoleIds(type) ==
    CASE type = "3x1" -> {3, 4, 5}
      [] type = "2x1" -> {2, 3}
      [] type = "1x1" -> {1}
      [] OTHER -> {}

\* faulty variant: the bottom hole of a 1x1 brick is put on its top face
HoleOffsets_BottomOnTop(type, holeId) ==
    CASE type = "base" ->
            LET col == holeId % 4
                row == holeId \div 4
            IN  <<((2 * col - 3) * STUD_SIZE) \div 2, PLATE_HEIGHT \div 2, ((2 * row - 3) * STUD_SIZE) \div 2>>
      [] type = "3x1" ->
            LET yOffset == IF holeId <= 2 THEN PLATE_HEIGHT \div 2 ELSE -(PLATE_HEIGHT \div 2)
                x0 == IF holeId = 0 \/ holeId = 3 THEN -STUD_SIZE ELSE 0
                xOffset == IF holeId = 2 \/ holeId = 5 THEN STUD_SIZE ELSE x0
            IN  <<xOffset, yOffset, 0>>
      [] type = "2x1" ->
            LET yOffset == IF holeId <= 1 THEN PLATE_HEIGHT \div 2 ELSE -(PLATE_HEIGHT \div 2)
                xOffset == IF holeId = 0 \/ holeId = 2 THEN -(STUD_SIZE \div 2) ELSE STUD_SIZE \div 2
            IN  <<xOffset, yOffset, 0>>
      [] type = "1x1" -> <<0, PLATE_HEIGHT \div 2, 0>>

\* faulty variant: the left and the right holes of a 3x1 brick are exchanged
HoleOffsets_MirroredX(type, holeId) ==
    CASE type = "base" ->
            LET col == holeId % 4
                row == holeId \div 4
            IN  <<((2 * col - 3) * STUD_SIZE) \div 2, PLATE_HEIGHT \div 2, ((2 * row - 3) * STUD_SIZE) \div 2>>
      [] type = "3x1" ->
            LET yOffset == IF holeId <= 2 THEN PLATE_HEIGHT \div 2 ELSE -(PLATE_HEIGHT \div 2)
                x0 == IF holeId = 0 \/ holeId = 3 THEN STUD_SIZE ELSE 0
                xOffset == IF holeId = 2 \/ holeId = 5 THEN -STUD_SIZE ELSE x0
            IN  <<xOffset, yOffset, 0>>
      [] type = "2x1" ->
            LET yOffset == IF holeId <= 1 THEN PLATE_HEIGHT \div 2 ELSE -(PLATE_HEIGHT \div 2)
                xOffset == IF holeId = 0 \/ holeId = 2 THEN -(STUD_SIZE \div 2) ELSE STUD_SIZE \div 2
            IN  <<xOffset, yOffset, 0>>
      [] type = "1x1" ->
            LET yOffset == IF holeId = 0 THEN PLATE_HEIGHT \div 2 ELSE -(PLATE_HEIGHT \div 2)
            IN  <<0, yOffset, 0>>

\* HoleOffsets of each definition, for a hole id that is a natural number.
HoleOffsets(type, holeId) ==
    CASE type = "base" ->
            LET col == holeId % 4
                row == holeId \div 4
            IN  <<((2 * col - 3) * STUD_SIZE) \div 2, PLATE_HEIGHT \div 2, ((2 * row - 3) * STUD_SIZE) \div 2>>
      [] type = "3x1" ->
            LET yOffset == IF holeId <= 2 THEN PLATE_HEIGHT \div 2 ELSE -(PLATE_HEIGHT \div 2)
                x0 == IF holeId = 0 \/ holeId = 3 THEN -STUD_SIZE ELSE 0
                xOffset == IF holeId = 2 \/ holeId = 5 THEN STUD_SIZE ELSE x0
            IN  <<xOffset, yOffset, 0>>
      [] type = "2x1" ->
            LET yOffset == IF holeId <= 1 THEN PLATE_HEIGHT \div 2 ELSE -(PLATE_HEIGHT \div 2)
                xOffset == IF holeId = 0 \/ holeId = 2 THEN -(STUD_SIZE \div 2) ELSE STUD_SIZE \div 2
            IN  <<xOffset, yOffset, 0>>
      [] type = "1x1" ->
            LET yOffset == IF holeId = 0 THEN PLATE_HEIGHT \div 2 ELSE -(PLATE_HEIGHT \div 2)
            IN  <<0, yOffset, 0>>

\* faulty variant: the list of top holes is not consulted
isTopHole_AnyHole(brickDef, holeId) == Truthy(brickDef)

isTopHole(brickDef, holeId) ==
    IF ~Truthy(brickDef) THEN FALSE
    ELSE IF brickDef.kind = "def" /\ brickDef.type = "base" THEN TRUE
    ELSE IF brickDef.kind # "def" THEN FALSE
    ELSE holeId \in TopHoleIds(brickDef.type)

----------------------------------------------------------------------------
(* Transform arithmetic of three.js, restricted to rotations about Y by    *)
(* multiples of 90 degrees.                                                *)

VAdd(a, b) == <<a[1] + b[1], a[2] + b[2], a[3] + b[3]>>
VSub(a, b) == <<a[1] - b[1], a[2] - b[2], a[3] - b[3]>>

\* faulty variant: the vector is turned the other way round
ApplyYaw_Clockwise(v, yaw) ==
    CASE yaw = 0   -> v
      [] yaw = 90  -> <<-v[3], v[2], v[1]>>
      [] yaw = 180 -> <<-v[1], v[2], -v[3]>>
      [] yaw = 270 -> <<v[3], v[2], -v[1]>>

\* Vector3.applyQuaternion for the quaternion setFromAxisAngle((0,1,0), yaw).
ApplyYaw(v, yaw) ==
    CASE yaw = 0   -> v
      [] yaw = 90  -> <<v[3], v[2], -v[1]>>
      [] yaw = 180 -> <<-v[1], v[2], -v[3]>>
      [] yaw = 270 -> <<-v[3], v[2], v[1]>>

\* Quaternion.multiply of two rotations about Y.
MulYaw(a, b) == (a + b) % 360

\* faulty variant: the angle is not negated
relativeRotation_NotNegated(holeData) ==
    LET deg == IF "orientation" \in DOMAIN holeData THEN holeData.orientation ELSE 0
    IN  deg % 360

\* setFromAxisAngle((0,1,0), -degToRad(orientation || 0)) as a yaw angle.
relativeRotation(holeData) ==
    LET deg == IF "orientation" \in DOMAIN holeData THEN holeData.orientation ELSE 0
    IN  (360 - (deg % 360)) % 360

\* Object3D.localToWorld of a mesh whose parents carry the identity transform.
localToWorld(mesh, v) == VAdd(mesh.pos, ApplyYaw(v, mesh.yaw))

----------------------------------------------------------------------------
(* JavaScript objects used as maps.                                        *)

EmptyMap == [k \in {} |-> <<>>]
Put(m, k, v) == [x \in (DOMAIN m) \cup {k} |-> IF x = k THEN v ELSE m[x]]

IsArray(d) == d.kind = "array"

\* faulty variant: the first record with an id is kept
RECURSIVE IndexRecords_FirstWins(_, _)
IndexRecords_FirstWins(records, acc) ==
    IF records = <<>> THEN acc
    ELSE LET brickData == Head(records)
         IN  IndexRecords_FirstWins(Tail(records),
                 IF "id" \in DOMAIN brickData /\ String(brickData.id) \notin DOMAIN acc
                 THEN Put(acc, String(brickData.id), brickData)
                 ELSE acc)

\* The forEach of buildStructure that fills bricksById: a later record with
\* the same String(id) overwrites an earlier one; a record without id is left out.
RECURSIVE IndexRecords(_, _)
IndexRecords(records, acc) ==
    IF records = <<>> THEN acc
    ELSE LET brickData == Head(records)
         IN  IndexRecords(Tail(records),
                 IF "id" \in DOMAIN brickData
                 THEN Put(acc, String(brickData.id), brickData)
                 ELSE acc)

\* faulty variant: the own marks are not consulted
IsProcessed_IgnoresMarks(processed, k) == k \in ObjectPrototypeKeys

\* processedBrickIds[k] read as a condition: true for an own property and for
\* every property inherited from Object.prototype.
IsProcessed(processed, k) == k \in processed \/ k \in ObjectPrototypeKeys

\* faulty variants: the mark is never set; the base is never marked
MarkProcessed_Forgotten(processed, k) == processed
MarkProcessed_NotBase(processed, k) == IF k = "1" THEN processed ELSE processed \cup {k}

\* processedBrickIds[k] = true
MarkProcessed(processed, k) == processed \cup {k}

\* faulty variant: the children of the group are kept
clearStructureGroup_Keeps(children) == children

\* clearStructure: the while loop that empties structureGroup.children
clearStructureGroup(children) == <<>>

\* faulty variant: the base plate stays
clearBasePlate_Keeps(mesh) == mesh

\* clearStructure: the base plate is removed from the scene and the reference nulled
clearBasePlate(mesh) == <<>>

BaseMesh == [brick |-> "1", type |-> "base", pos |-> <<0, 0, 0>>, yaw |-> 0]

\* faulty variant: the offset of the remote hole is turned by the parent's
\* rotation instead of the new brick's
PlaceMesh_ParentRotation(currentMesh, currentType, holeData, connectedId, connectedType) ==
    LET bottomHoleLocalOffset == HoleOffsets(currentType, holeData.id)
        topHoleLocalOffset == HoleOffsets(connectedType, holeData.connectedToHole)
        bottomHoleWorldPos == localToWorld(currentMesh, bottomHoleLocalOffset)
        worldRotation == MulYaw(currentMesh.yaw, relativeRotation(holeData))
        centerOffset == ApplyYaw(topHoleLocalOffset, currentMesh.yaw)
        newBrickPosition == VSub(bottomHoleWorldPos, centerOffset)
    IN  [brick |-> connectedId, type |-> connectedType,
         pos |-> newBrickPosition, yaw |-> worldRotation]

\* The core placement logic: the mesh of the connected brick.
PlaceMesh(currentMesh, currentType, holeData, connectedId, connectedType) ==
    LET bottomHoleLocalOffset == HoleOffsets(currentType, holeData.id)
        topHoleLocalOffset == HoleOffsets(connectedType, holeData.connectedToHole)
        bottomHoleWorldPos == localToWorld(currentMesh, bottomHoleLocalOffset)
        worldRotation == MulYaw(currentMesh.yaw, relativeRotation(holeData))
        centerOffset == ApplyYaw(topHoleLocalOffset, worldRotation)
        newBrickPosition == VSub(bottomHoleWorldPos, centerOffset)
    IN  [brick |-> connectedId, type |-> connectedType,
         pos |-> newBrickPosition, yaw |-> worldRotation]

----------------------------------------------------------------------------
(* buildStructure.                                                         *)

\* faulty variant: the marks of the previous call are kept
newProcessedBrickIds_Kept(previous) == previous

\* const processedBrickIds = {}: every call starts with its own empty object
newProcessedBrickIds(previous) == {}

\* history: the end of the first build of each record list
Remember(data, result) ==
    IF IsArray(data) /\ data.items \notin DOMAIN firstBuilt
    THEN Put(firstBuilt, data.items, result)
    ELSE firstBuilt

\* clearStructure followed by the part of buildStructure before the while loop.
BuildStart(data, who) ==
    /\ caller' = who
    /\ structureData' = data
    /\ structureGroup' = clearStructureGroup(structureGroup)
    /\ cur' = <<>>
    /\ holeIdx' = 1
    /\ lookups' = <<>>
    /\ edges' = <<>>
    /\ visits' = <<>>
    /\ IF ~IsArray(data)
       THEN /\ outcome' = "notArray"
            /\ pc' = "idle"
            /\ basePlateMesh' = clearBasePlate(basePlateMesh)
            /\ pushed' = <<>>
            /\ bricksById' = EmptyMap
            /\ threeMeshes' = EmptyMap
            /\ processedBrickIds' = newProcessedBrickIds(processedBrickIds)
            /\ queue' = <<>>
            /\ UNCHANGED firstBuilt
       ELSE LET byId == IndexRecords(data.items, EmptyMap)
                hasBase == "1" \in DOMAIN byId /\ byId["1"].type = "base"
            IN  /\ bricksById' = byId
                /\ IF ~hasBase \/ ~Truthy(getBrickDefinition("base"))
                   THEN /\ outcome' = "missingBase"
                        /\ pc' = "idle"
                        /\ basePlateMesh' = clearBasePlate(basePlateMesh)
                        /\ pushed' = <<>>
                        /\ threeMeshes' = EmptyMap
                        /\ processedBrickIds' = newProcessedBrickIds(processedBrickIds)
                        /\ queue' = <<>>
                        /\ firstBuilt' = Remember(data, [outcome |-> "missingBase",
                                                         base |-> <<>>, group |-> <<>>])
                   ELSE /\ outcome' = "running"
                        /\ pc' = "bfs"
                        /\ basePlateMesh' = <<BaseMesh>>
                        /\ threeMeshes' = Put(EmptyMap, String(byId["1"].id), BaseMesh)
                        /\ processedBrickIds' =
                               MarkProcessed(newProcessedBrickIds(processedBrickIds),
                                             String(byId["1"].id))
                        /\ queue' = <<byId["1"].id>>
                        /\ pushed' = <<String(byId["1"].id)>>
                        /\ UNCHANGED firstBuilt

\* faulty variant: the id is taken from the back of the queue
queueShift_FromBack(q) == [first |-> q[Len(q)], rest |-> SubSeq(q, 1, Len(q) - 1)]

\* queue.shift(): the front element and the queue that is left
queueShift(q) == [first |-> Head(q), rest |-> Tail(q)]

\* One iteration of the while loop up to the forEach: queue.shift() and the
\* two skip tests.
Dequeue ==
    /\ pc = "bfs"
    /\ cur = <<>>
    /\ queue # <<>>
    /\ LET currentBrickId == queueShift(queue).first
           key == String(currentBrickId)
           present == key \in DOMAIN bricksById /\ key \in DOMAIN threeMeshes
           iterate == /\ present
                      /\ Truthy(getBrickDefinition(bricksById[key].type))
                      /\ "holes" \in DOMAIN bricksById[key]
                      /\ bricksById[key].holes # <<>>
       IN  /\ queue' = queueShift(queue).rest
           /\ cur' = IF iterate THEN <<currentBrickId>> ELSE <<>>
           /\ holeIdx' = 1
    /\ UNCHANGED <<pc, caller, jsonData, currentJsonIndex, cycleBtnDisabled, sceneVars,
                   bricksById, threeMeshes, processedBrickIds, outcome, lookups, edges, visits,
                   pushed, structureData, firstBuilt, clickedWhileLoading, cycledFrom, catalogVars, uiVars, variantVars>>

\* What the forEach callback does with one hole of the current brick.
\*   "skip"     nothing changes
\*   "dangling" the id is marked processed
\*   "place"    a mesh is created, marked and enqueued
\*   "throw"    HoleOffsets is called on a value that has no such function
\* faulty variant: the sentinel "-1" is not tested
HoleAction_NoSentinel(currentType, holeData, processed, byId) ==
    IF ~("brick" \in DOMAIN holeData /\ "id" \in DOMAIN holeData) THEN "skip"
    ELSE LET connectedBrickIdStr == String(holeData.brick)
         IN  IF ~isTopHole(getBrickDefinition(currentType), holeData.id) THEN "skip"
             ELSE IF IsProcessed(processed, connectedBrickIdStr) THEN "skip"
             ELSE IF connectedBrickIdStr \notin DOMAIN byId THEN "dangling"
             ELSE LET connectedBrickDef == getBrickDefinition(byId[connectedBrickIdStr].type)
                  IN  IF ~Truthy(connectedBrickDef) THEN "skip"
                      ELSE IF "connectedToHole" \notin DOMAIN holeData THEN "skip"
                      ELSE IF ~HasHoleOffsets(connectedBrickDef) THEN "throw"
                      ELSE "place"

\* faulty variant: a target without record is skipped without being marked
HoleAction_DanglingSkipped(currentType, holeData, processed, byId) ==
    IF ~("brick" \in DOMAIN holeData /\ "id" \in DOMAIN holeData) THEN "skip"
    ELSE LET connectedBrickIdStr == String(holeData.brick)
         IN  IF ~(connectedBrickIdStr # "-1"
                    /\ isTopHole(getBrickDefinition(currentType), holeData.id)) THEN "skip"
             ELSE IF IsProcessed(processed, connectedBrickIdStr) THEN "skip"
             ELSE IF connectedBrickIdStr \notin DOMAIN byId THEN "skip"
             ELSE LET connectedBrickDef == getBrickDefinition(byId[connectedBrickIdStr].type)
                  IN  IF ~Truthy(connectedBrickDef) THEN "skip"
                      ELSE IF "connectedToHole" \notin DOMAIN holeData THEN "skip"
                      ELSE IF ~HasHoleOffsets(connectedBrickDef) THEN "throw"
                      ELSE "place"

HoleAction(currentType, holeData, processed, byId) ==
    IF ~("brick" \in DOMAIN holeData /\ "id" \in DOMAIN holeData) THEN "skip"
    ELSE LET connectedBrickIdStr == String(holeData.brick)
         IN  IF ~(connectedBrickIdStr # "-1"
                    /\ isTopHole(getBrickDefinition(currentType), holeData.id)) THEN "skip"
             ELSE IF IsProcessed(processed, connectedBrickIdStr) THEN "skip"
             ELSE IF connectedBrickIdStr \notin DOMAIN byId THEN "dangling"
             ELSE LET connectedBrickDef == getBrickDefinition(byId[connectedBrickIdStr].type)
                  IN  IF ~Truthy(connectedBrickDef) THEN "skip"
                      ELSE IF "connectedToHole" \notin DOMAIN holeData THEN "skip"
                      ELSE IF ~HasHoleOffsets(connectedBrickDef) THEN "throw"
                      ELSE "place"

\* Is this hole a connection from a top socket to another brick?
IsTopConnection(currentType, holeData) ==
    /\ "brick" \in DOMAIN holeData /\ "id" \in DOMAIN holeData
    /\ String(holeData.brick) # "-1"
    /\ isTopHole(getBrickDefinition(currentType), holeData.id)

\* One call of the forEach callback.
ProcessHole ==
    /\ pc = "bfs"
    /\ cur # <<>>
    /\ LET key == String(cur[1])
           currentBrickData == bricksById[key]
           currentMesh == threeMeshes[key]
           holeData == currentBrickData.holes[holeIdx]
           act == HoleAction(currentBrickData.type, holeData, processedBrickIds, bricksById)
           last == holeIdx = Len(currentBrickData.holes)
           top == IsTopConnection(currentBrickData.type, holeData)
           target == String(holeData.brick)
           looked == top /\ ~IsProcessed(processedBrickIds, target)
       IN  /\ visits' = IF top THEN Append(visits, [from |-> key, hole |-> holeData, to |-> target])
                        ELSE visits
           /\ lookups' = IF looked THEN Append(lookups, target) ELSE lookups
           /\ CASE act = "skip" ->
                    /\ UNCHANGED <<threeMeshes, processedBrickIds, queue, structureGroup, edges,
                                   pushed, outcome, pc, cycleBtnDisabled, firstBuilt>>
                    /\ cur' = IF last THEN <<>> ELSE cur
                    /\ holeIdx' = IF last THEN 1 ELSE holeIdx + 1
                [] act = "dangling" ->
                    /\ processedBrickIds' = MarkProcessed(processedBrickIds, target)
                    /\ UNCHANGED <<threeMeshes, queue, structureGroup, edges, pushed,
                                   outcome, pc, cycleBtnDisabled, firstBuilt>>
                    /\ cur' = IF last THEN <<>> ELSE cur
                    /\ holeIdx' = IF last THEN 1 ELSE holeIdx + 1
                [] act = "place" ->
                    \* HoleOffsets and Size are those of the two definitions
                    LET currentBrickDef == getBrickDefinition(currentBrickData.type)
                        connectedBrickDef == getBrickDefinition(bricksById[target].type)
                        newMesh == PlaceMesh(currentMesh, currentBrickDef.type, holeData,
                                             target, connectedBrickDef.type)
                    IN  /\ structureGroup' = Append(structureGroup, newMesh)
                        /\ threeMeshes' = Put(threeMeshes, target, newMesh)
                        /\ processedBrickIds' = MarkProcessed(processedBrickIds, target)
                        /\ queue' = Append(queue, Str(target))
                        /\ pushed' = Append(pushed, target)
                        /\ edges' = Append(edges, [from |-> key, hole |-> holeData, to |-> target])
                        /\ UNCHANGED <<outcome, pc, cycleBtnDisabled, firstBuilt>>
                        /\ cur' = IF last THEN <<>> ELSE cur
                        /\ holeIdx' = IF last THEN 1 ELSE holeIdx + 1
                [] act = "throw" ->
                    \* the TypeError leaves buildStructure; init catches it and
                    \* disables the button, cycleStructure lets it escape
                    /\ outcome' = "thrown"
                    /\ pc' = "idle"
                    /\ cycleBtnDisabled' = (cycleBtnDisabled \/ caller = "init")
                    /\ cur' = <<>>
                    /\ holeIdx' = 1
                    /\ firstBuilt' = Remember(structureData,
                                                [outcome |-> "thrown", base |-> basePlateMesh,
                                                 group |-> structureGroup])
                    /\ UNCHANGED <<threeMeshes, processedBrickIds, queue, structureGroup, edges,
                                   pushed>>
    /\ UNCHANGED <<caller, jsonData, currentJsonIndex, basePlateMesh, bricksById, structureData,
                   clickedWhileLoading, cycledFrom, catalogVars, uiVars, variantVars>>

\* The while loop ends with an empty queue and buildStructure returns.
BuildReturn ==
    /\ pc = "bfs"
    /\ cur = <<>>
    /\ queue = <<>>
    /\ pc' = "idle"
    /\ outcome' = "ok"
    /\ firstBuilt' = Remember(structureData, [outcome |-> "ok", base |-> basePlateMesh,
                                              group |-> structureGroup])
    /\ UNCHANGED <<caller, jsonData, currentJsonIndex, cycleBtnDisabled, sceneVars, buildVars,
                   clickedWhileLoading, cycledFrom, catalogVars, uiVars, variantVars>>

----------------------------------------------------------------------------
(* init (the part after the listeners are registered) and cycleStructure.  *)

\* The fetch of structures.json completes with the parsed file.
LoadComplete(file) ==
    /\ pc = "loading"
    /\ jsonData' = file
    /\ UNCHANGED <<currentJsonIndex, clickedWhileLoading, cycledFrom, catalogVars, uiVars, variantVars>>
    /\ IF Len(file) > 0
       THEN /\ BuildStart(file[currentJsonIndex + 1].data, "init")
            /\ UNCHANGED cycleBtnDisabled
       ELSE /\ cycleBtnDisabled' = TRUE
            /\ pc' = "idle"
            /\ UNCHANGED <<caller, outcome, sceneVars, buildVars, firstBuilt>>

\* The fetch or the JSON parsing fails: the catch block of init.
LoadFailed ==
    /\ pc = "loading"
    /\ cycleBtnDisabled' = TRUE
    /\ pc' = "idle"
    /\ UNCHANGED <<caller, jsonData, currentJsonIndex, outcome, sceneVars, buildVars, firstBuilt,
                   clickedWhileLoading, cycledFrom, catalogVars, uiVars, variantVars>>

\* faulty variant: the index advances by two
nextJsonIndex_SkipsOne(index, length) == (index + 2) % length

\* (currentJsonIndex + 1) % jsonData.length
nextJsonIndex(index, length) == (index + 1) % length

\* faulty variant: a call that finds no structures disables the button, as
\* the error paths of init do
cycleStructure_DisablesWhenEmpty ==
    /\ pc \in {"loading", "idle"}
    /\ ~cycleBtnDisabled
    /\ clickedWhileLoading' = (clickedWhileLoading \/ pc = "loading")
    /\ UNCHANGED <<cycledFrom, catalogVars, uiVars, variantVars>>
    /\ IF Len(jsonData) = 0
       THEN /\ cycleBtnDisabled' = TRUE
            /\ UNCHANGED <<pc, caller, jsonData, currentJsonIndex, outcome, firstBuilt,
                           sceneVars, buildVars>>
       ELSE LET next == nextJsonIndex(currentJsonIndex, Len(jsonData))
            IN  /\ currentJsonIndex' = next
                /\ UNCHANGED <<jsonData, cycleBtnDisabled>>
                /\ IF ~IsArray(jsonData[next + 1].data)
                   THEN UNCHANGED <<pc, caller, outcome, sceneVars, buildVars, firstBuilt>>
                   ELSE BuildStart(jsonData[next + 1].data, "cycle")

\* A click on the cycle button: cycleStructure.  The listener is registered
\* before init awaits the fetch, so the handler also runs while jsonData is
\* still the empty array.
cycleStructure ==
    /\ pc \in {"loading", "idle"}
    /\ ~cycleBtnDisabled
    /\ clickedWhileLoading' = (clickedWhileLoading \/ pc = "loading")
    /\ UNCHANGED <<cycledFrom, catalogVars, uiVars, variantVars>>
    /\ IF Len(jsonData) = 0
       THEN UNCHANGED programState
       ELSE LET next == nextJsonIndex(currentJsonIndex, Len(jsonData))
            IN  /\ currentJsonIndex' = next
                /\ UNCHANGED <<jsonData, cycleBtnDisabled>>
                /\ IF ~IsArray(jsonData[next + 1].data)
                   THEN UNCHANGED <<pc, caller, outcome, sceneVars, buildVars, firstBuilt>>
                   ELSE BuildStart(jsonData[next + 1].data, "cycle")

Init ==
    /\ pc = "loading"
    /\ caller = "init"
    /\ jsonData = <<>>
    /\ currentJsonIndex = 0
    /\ cycleBtnDisabled = FALSE
    /\ basePlateMesh = <<>>
    /\ structureGroup = <<>>
    /\ bricksById = EmptyMap
    /\ threeMeshes = EmptyMap
    /\ processedBrickIds = {}
    /\ queue = <<>>
    /\ cur = <<>>
    /\ holeIdx = 1
    /\ outcome = "none"
    /\ lookups = <<>>
    /\ edges = <<>>
    /\ visits = <<>>
    /\ pushed = <<>>
    /\ structureData = [kind |-> "other"]
    /\ firstBuilt = EmptyMap
    /\ clickedWhileLoading = FALSE
    /\ cycledFrom = <<>>
    /\ catalogQuery = <<>>
    /\ catalogAnswer = <<>>
    /\ selectedStructureGroup = FALSE
    /\ activeCloneGroup = <<>>
    /\ isMovingCloneGroup = FALSE
    /\ controlsEnabled = TRUE
    /\ userPlacedGroups = <<>>
    /\ sceneClones = {}
    /\ meshMaterial = <<>>
    /\ originalMaterialsMap = EmptyMap
    /\ selectedOriginal = <<>>
    /\ activeClone = <<>>
    /\ isMovingClone = FALSE
    /\ originalSelectedMaterial = <<>>
    /\ originalCloneMaterial = <<>>
    /\ userBricks = <<>>
    /\ isDragging = FALSE
    /\ clonedMesh = <<>>
    /\ originalDraggedMaterial = <<>>

----------------------------------------------------------------------------
(* Inputs: the structures a structures.json file may hold.                 *)

Array(items) == [kind |-> "array", items |-> items]
NotAnArray == [kind |-> "other"]
Structure(records) == [data |-> Array(records)]

Rec(id, type, holes) == [id |-> id, type |-> type, holes |-> holes]
Hole(id, brick, toHole, deg) ==
    [id |-> id, brick |-> brick, connectedToHole |-> toHole, orientation |-> deg]
\* a hole whose connectedToHole field is absent
HoleNoTo(id, brick, deg) == [id |-> id, brick |-> brick, orientation |-> deg]
\* an unused hole as the data files write it
Unused(id) == Hole(id, Str("-1"), -1, 0)

Orientations == {90 * k : k \in 0..MaxTurns}
PlacedTypes == {"1x1", "2x1", "3x1"}
\* connectedToHole of the chain inputs: the first bottom hole of the type
\* and the hole id after it
ToOffsets == {0, 1}
FirstBottom(type) == CASE type = "3x1" -> 3 [] type = "2x1" -> 2 [] OTHER -> 1

\* A chain base -> "2" -> "3" with the back references on bottom holes that
\* the data files carry; base hole, brick types, remote holes and both
\* orientations vary.
ChainInputs ==
    { <<Rec(Str("1"), "base", <<Hole(b, Str("2"), FirstBottom(tx) + j1, o1)>>),
        Rec(Str("2"), tx, <<Hole(0, Str("3"), FirstBottom(ty) + j2, o2),
                            Hole(FirstBottom(tx), Str("1"), b, 0)>>),
        Rec(Str("3"), ty, <<Unused(0), Hole(FirstBottom(ty), Str("2"), 0, 0)>>)>> :
      <<b, tx, ty, j1, j2, o1, o2>> \in
          {0, 15} \X PlacedTypes \X PlacedTypes \X ToOffsets \X ToOffsets
              \X Orientations \X Orientations }

Targets == {Str("1"), Str("2"), Str("3"), Str("9"), Str("constructor")}
SecondTypes == {"2x1", "base", "4x4", "constructor"}

\* Connection graphs over the bricks "1", "2", "3" and "constructor": cycles,
\* self references, several edges to one brick, dangling ids, unknown types,
\* a first edge without connectedToHole.
GraphInputs ==
    { <<Rec(Str("1"), "base",
            <<(IF withTo THEN Hole(0, a, 1, 0) ELSE HoleNoTo(0, a, 0)), Hole(1, b, 1, 90)>>),
        Rec(Str("2"), tx, <<Hole(0, c, 1, 180), Hole(2, Str("3"), 0, 0)>>),
        Rec(Str("3"), "1x1", <<Hole(0, Str("2"), 1, 0)>>),
        Rec(Str("constructor"), "1x1", <<Hole(0, Str("3"), 1, 90)>>)>> :
      <<a, b, c, tx, withTo>> \in
          Targets \X (Targets \cup {Str("-1")}) \X Targets \X SecondTypes \X BOOLEAN }

\* Numeric and string forms of ids and references; the input holds a record
\* whose id is the empty sentinel -1.
IdForms(n) == {Num(n), Str(NatStr(n))}
FormInputs ==
    { <<Rec(i1, "base", <<Hole(0, r2, 1, 90), Hole(5, none, -1, 0)>>),
        Rec(i2, "1x1", <<Unused(0), Hole(1, r1, 0, 0)>>),
        Rec(none, "1x1", <<Unused(0), Unused(1)>>)>> :
      <<i1, i2, r1, r2, none>> \in
          IdForms(1) \X IdForms(22) \X IdForms(1) \X IdForms(22) \X {Num(-1), Str("-1")} }

\* Base records that are absent, mistyped or duplicated; records without id
\* or without holes; a hole without brick.
BaseHoles16 == [k \in 1..16 |-> IF k = 1 THEN Hole(0, Str("56"), 1, 0) ELSE Unused(k - 1)]
Json1 ==
    <<Rec(Str("1"), "base", BaseHoles16),
      Rec(Str("56"), "1x1", <<Unused(0), Hole(1, Str("1"), 0, 0)>>)>>
Json3 ==
    <<Rec(Str("1"), "base",
          [k \in 1..16 |-> IF k = 1 THEN Hole(0, Str("22"), 2, 90)
                           ELSE IF k = 5 THEN Hole(4, Str("22"), 3, 90)
                           ELSE Unused(k - 1)]),
      Rec(Str("22"), "2x1",
          <<Unused(0), Unused(1), Hole(2, Str("1"), 0, 0), Hole(3, Str("1"), 4, 0)>>)>>
NoBase == <<Rec(Str("56"), "1x1", <<Unused(0), Hole(1, Str("1"), 0, 0)>>)>>
MistypedBase ==
    <<Rec(Str("1"), "2x1", <<Hole(0, Str("56"), 1, 0)>>),
      Rec(Str("56"), "1x1", <<Unused(0)>>)>>
DuplicateBase ==
    <<Rec(Str("1"), "base", <<Hole(0, Str("56"), 1, 0)>>),
      Rec(Str("56"), "1x1", <<Unused(0)>>),
      Rec(Num(1), "1x1", <<Unused(0)>>)>>
DuplicateBrick ==
    <<Rec(Str("1"), "base", <<Hole(0, Str("56"), 1, 0)>>),
      Rec(Str("56"), "1x1", <<Hole(0, Str("7"), 1, 0)>>),
      Rec(Num(56), "2x1", <<Hole(1, Str("7"), 2, 270)>>),
      [type |-> "1x1", holes |-> <<Unused(0)>>],
      [id |-> Str("7"), type |-> "1x1"]>>
MalformedHole ==
    <<Rec(Str("1"), "base", <<[id |-> 0, connectedToHole |-> 1], [brick |-> Str("56")],
                              Hole(3, Str("56"), 1, 180)>>),
      Rec(Str("56"), "1x1", <<>>)>>
Thrower ==
    <<Rec(Str("1"), "base", <<Hole(0, Str("56"), 1, 0), Hole(1, Str("7"), 1, 0),
                              Hole(2, Str("8"), 1, 0)>>),
      Rec(Str("56"), "1x1", <<Unused(0)>>),
      Rec(Str("7"), "toString", <<Unused(0)>>),
      Rec(Str("8"), "1x1", <<Unused(0)>>)>>

\* hole ids beyond the 16 sockets of the base and the 2 sockets of a 1x1 brick
OutOfLayout ==
    <<Rec(Str("1"), "base", <<Hole(16, Str("56"), 7, 0)>>),
      Rec(Str("56"), "1x1", <<Unused(0)>>)>>

\* a connection to an id that has no record and names a property of
\* Object.prototype, and one to an ordinary id without record
DanglingPrototype ==
    <<Rec(Str("1"), "base", <<Hole(0, Str("toString"), 1, 0), Hole(1, Str("9"), 1, 0),
                              Hole(2, Str("56"), 1, 0)>>),
      Rec(Str("56"), "1x1", <<Unused(0), Hole(1, Str("1"), 2, 0)>>)>>

\* a 2x1 brick joined by a socket id that it does not have
OutOfLayoutTwoByOne ==
    <<Rec(Str("1"), "base", <<Hole(0, Str("22"), 4, 0)>>),
      Rec(Str("22"), "2x1", <<Unused(0), Unused(1)>>)>>

\* two branches of different height: "2" carries "4"; "3" carries "5",
\* which carries "6"
TwoBranches ==
    <<Rec(Str("1"), "base", <<Hole(0, Str("2"), 1, 0), Hole(1, Str("3"), 1, 0)>>),
      Rec(Str("2"), "1x1", <<Hole(0, Str("4"), 1, 0), Hole(1, Str("1"), 0, 0)>>),
      Rec(Str("3"), "1x1", <<Hole(0, Str("5"), 1, 0), Hole(1, Str("1"), 1, 0)>>),
      Rec(Str("4"), "1x1", <<Unused(0), Hole(1, Str("2"), 0, 0)>>),
      Rec(Str("5"), "1x1", <<Hole(0, Str("6"), 1, 0), Hole(1, Str("3"), 0, 0)>>),
      Rec(Str("6"), "1x1", <<Unused(0), Hole(1, Str("5"), 0, 0)>>)>>

\* a reference whose string form differs from that of the id 22
LeadingZero ==
    <<Rec(Num(1), "base", <<Hole(0, Str("022"), 1, 0), Hole(1, Num(56), 1, 0)>>),
      Rec(Num(22), "1x1", <<Unused(0), Hole(1, Str("1"), 0, 0)>>),
      Rec(Str("56"), "1x1", <<Unused(0), Hole(1, Num(1), 1, 0)>>)>>

SpecialInputs ==
    {Json1, Json3, NoBase, MistypedBase, DuplicateBase, DuplicateBrick, MalformedHole, Thrower,
     OutOfLayout, OutOfLayoutTwoByOne, DanglingPrototype, TwoBranches, LeadingZero, <<>>}

Inputs == ChainInputs \cup GraphInputs \cup FormInputs \cup SpecialInputs

\* structures.json with one structure.
SingleFiles == {<<Structure(records)>> : records \in Inputs} \cup {<<>>, <<[data |-> NotAnArray]>>}

\* structures.json with up to MaxStructures structures.
ViewerEntries ==
    {Structure(records) : records \in {Json1, Json3, NoBase, MistypedBase, Thrower}}
        \cup {[data |-> NotAnArray]}
RECURSIVE SeqsUpTo(_, _)
SeqsUpTo(S, n) ==
    IF n = 0 THEN {<<>>}
    ELSE LET shorter == SeqsUpTo(S, n - 1)
         IN  shorter \cup {Append(q, x) : q \in shorter, x \in S}
MultiFiles == SeqsUpTo(ViewerEntries, MaxStructures)

----------------------------------------------------------------------------
(* Specifications.                                                         *)

\* One structure per file, drawn from all inputs.
Next ==
    \/ \E file \in SingleFiles : LoadComplete(file)
    \/ LoadFailed
    \/ cycleStructure
    \/ Dequeue
    \/ ProcessHole
    \/ BuildReturn

Spec == Init /\ [][Next]_vars

\* Several structures per file, cycled through by the button.
ViewerNext ==
    \/ \E file \in MultiFiles : LoadComplete(file)
    \/ LoadFailed
    \/ cycleStructure
    \/ Dequeue
    \/ ProcessHole
    \/ BuildReturn

ViewerSpec == Init /\ [][ViewerNext]_vars

----------------------------------------------------------------------------
(* The catalog on its own: a caller looks a brick type up and calls        *)
(* HoleOffsets and isTopHole on what it got, as buildStructure does.       *)

CatalogTypes == {"base", "3x1", "2x1", "1x1", "4x4", "constructor"}
CatalogQueries == {[type |-> t, holeId |-> k] : t \in CatalogTypes, k \in 0..MaxHoleId}

CatalogInit ==
    /\ pc = "idle"
    /\ caller = "init"
    /\ jsonData = <<>>
    /\ currentJsonIndex = 0
    /\ cycleBtnDisabled = TRUE
    /\ basePlateMesh = <<>>
    /\ structureGroup = <<>>
    /\ bricksById = EmptyMap
    /\ threeMeshes = EmptyMap
    /\ processedBrickIds = {}
    /\ queue = <<>>
    /\ cur = <<>>
    /\ holeIdx = 1
    /\ outcome = "none"
    /\ lookups = <<>>
    /\ edges = <<>>
    /\ visits = <<>>
    /\ pushed = <<>>
    /\ structureData = [kind |-> "other"]
    /\ firstBuilt = EmptyMap
    /\ clickedWhileLoading = FALSE
    /\ cycledFrom = <<>>
    /\ catalogQuery \in CatalogQueries
    /\ catalogAnswer = <<>>
    /\ selectedStructureGroup = FALSE
    /\ activeCloneGroup = <<>>
    /\ isMovingCloneGroup = FALSE
    /\ controlsEnabled = TRUE
    /\ userPlacedGroups = <<>>
    /\ sceneClones = {}
    /\ meshMaterial = <<>>
    /\ originalMaterialsMap = EmptyMap
    /\ selectedOriginal = <<>>
    /\ activeClone = <<>>
    /\ isMovingClone = FALSE
    /\ originalSelectedMaterial = <<>>
    /\ originalCloneMaterial = <<>>
    /\ userBricks = <<>>
    /\ isDragging = FALSE
    /\ clonedMesh = <<>>
    /\ originalDraggedMaterial = <<>>

programVars == <<pc, caller, jsonData, currentJsonIndex, cycleBtnDisabled, sceneVars, buildVars,
                 outcome, firstBuilt, clickedWhileLoading, cycledFrom, uiVars, variantVars>>

\* const def = getBrickDefinition(type)
CallGetBrickDefinition ==
    /\ catalogQuery # <<>>
    /\ catalogAnswer = <<>>
    /\ catalogAnswer' = [def |-> getBrickDefinition(catalogQuery.type), offset |-> <<>>, top |-> <<>>]
    /\ UNCHANGED <<catalogQuery, programVars>>

\* def.HoleOffsets(holeId); the call is a TypeError when def has no such function
CallHoleOffsets ==
    /\ catalogAnswer # <<>>
    /\ catalogAnswer.offset = <<>>
    /\ catalogAnswer' =
           [catalogAnswer EXCEPT !.offset =
               IF HasHoleOffsets(catalogAnswer.def)
               THEN <<HoleOffsets(catalogQuery.type, catalogQuery.holeId)>>
               ELSE <<"TypeError">>]
    /\ UNCHANGED <<catalogQuery, programVars>>

\* isTopHole(def, holeId)
CallIsTopHole ==
    /\ catalogAnswer # <<>>
    /\ catalogAnswer.top = <<>>
    /\ catalogAnswer' =
           [catalogAnswer EXCEPT !.top = <<isTopHole(catalogAnswer.def, catalogQuery.holeId)>>]
    /\ UNCHANGED <<catalogQuery, programVars>>

CatalogNext ==
    \/ CallGetBrickDefinition
    \/ CallHoleOffsets
    \/ CallIsTopHole

CatalogSpec == CatalogInit /\ [][CatalogNext]_vars

----------------------------------------------------------------------------
(* The group-clone variant src/unnamed/part_000.  Its definitions carry    *)
(* the prefix GC_.  Every event handler runs to its end in one step; the   *)
(* state of the page is gathered in a record that the handlers map to the  *)
(* state they leave.                                                       *)

GRID_Y_POSITION == 0
MOVEMENT_INCREMENT == STUD_SIZE

\* HoleOffsets of part_000: as in script.js but for 2x1, where two separate
\* tests leave x at 0 for an id that is neither 0, 2 nor 1, 3
GC_HoleOffsets(type, holeId) ==
    IF type = "2x1"
    THEN LET yOffset == IF holeId <= 1 THEN PLATE_HEIGHT \div 2 ELSE -(PLATE_HEIGHT \div 2)
             x0 == IF holeId = 0 \/ holeId = 2 THEN -(STUD_SIZE \div 2) ELSE 0
             xOffset == IF holeId = 1 \/ holeId = 3 THEN STUD_SIZE \div 2 ELSE x0
         IN  <<xOffset, yOffset, 0>>
    ELSE HoleOffsets(type, holeId)

GC_PlaceMesh(currentMesh, currentType, holeData, connectedId, connectedType) ==
    LET bottomHoleLocalOffset == GC_HoleOffsets(currentType, holeData.id)
        topHoleLocalOffset == GC_HoleOffsets(connectedType, holeData.connectedToHole)
        bottomHoleWorldPos == localToWorld(currentMesh, bottomHoleLocalOffset)
        worldRotation == MulYaw(currentMesh.yaw, relativeRotation(holeData))
        centerOffset == ApplyYaw(topHoleLocalOffset, worldRotation)
        newBrickPosition == VSub(bottomHoleWorldPos, centerOffset)
    IN  [brick |-> connectedId, type |-> connectedType,
         pos |-> newBrickPosition, yaw |-> worldRotation]

\* the forEach over the holes of one brick in the build loop of part_000
RECURSIVE GC_Holes(_, _, _, _)
GC_Holes(byId, key, i, st) ==
    LET holes == byId[key].holes
    IN  IF i > Len(holes) \/ st.thrown THEN st
        ELSE LET holeData == holes[i]
                 act == HoleAction(byId[key].type, holeData, st.processed, byId)
                 target == String(holeData.brick)
             IN  GC_Holes(byId, key, i + 1,
                    CASE act = "skip" -> st
                      [] act = "dangling" ->
                            [st EXCEPT !.processed = MarkProcessed(@, target)]
                      [] act = "place" ->
                            LET newMesh == GC_PlaceMesh(st.meshes[key], byId[key].type, holeData,
                                                        target, byId[target].type)
                            IN  [st EXCEPT !.meshes = Put(@, target, newMesh),
                                           !.group = Append(@, newMesh),
                                           !.processed = MarkProcessed(@, target),
                                           !.queue = Append(@, Str(target))]
                      [] act = "throw" -> [st EXCEPT !.thrown = TRUE])

\* the while loop of buildStructure of part_000
RECURSIVE GC_Loop(_, _)
GC_Loop(byId, st) ==
    IF st.queue = <<>> \/ st.thrown THEN st
    ELSE LET key == String(Head(st.queue))
             rest == [st EXCEPT !.queue = Tail(@)]
             iterate == /\ key \in DOMAIN byId /\ key \in DOMAIN st.meshes
                        /\ Truthy(getBrickDefinition(byId[key].type))
                        /\ "holes" \in DOMAIN byId[key]
         IN  GC_Loop(byId, IF iterate THEN GC_Holes(byId, key, 1, rest) ELSE rest)

\* the state of the page that the handlers of part_000 read and write
GC_State ==
    [sel |-> selectedStructureGroup, active |-> activeCloneGroup, moving |-> isMovingCloneGroup,
     controls |-> controlsEnabled, placed |-> userPlacedGroups, scene |-> sceneClones,
     mats |-> meshMaterial, map |-> originalMaterialsMap, base |-> basePlateMesh,
     group |-> structureGroup, outcome |-> outcome]

\* the handler leaves the page in state u
GC_Set(u) ==
    /\ selectedStructureGroup' = u.sel
    /\ activeCloneGroup' = u.active
    /\ isMovingCloneGroup' = u.moving
    /\ controlsEnabled' = u.controls
    /\ userPlacedGroups' = u.placed
    /\ sceneClones' = u.scene
    /\ meshMaterial' = u.mats
    /\ originalMaterialsMap' = u.map
    /\ basePlateMesh' = u.base
    /\ structureGroup' = u.group
    /\ outcome' = u.outcome

\* what the history keeps of a page state: whether a clone group was
\* being moved, and whether clone groups had been placed
PageSummary(u) ==
    [moving |-> u.moving /\ u.active # <<>>, placed |-> Len(u.placed) > 0]

\* faulty variant: the selection is not nulled
GC_clearHighlight_KeepsSelection(u) ==
    [u EXCEPT !.mats = [i \in 1..Len(u.mats) |->
                            IF i \in DOMAIN u.map THEN u.map[i] ELSE u.mats[i]],
              !.map = EmptyMap]

\* faulty variant: the map is emptied without restoring the materials
GC_clearHighlight_KeepsMaterials(u) ==
    [u EXCEPT !.map = EmptyMap,
              !.sel = FALSE]

\* clearHighlight: the saved materials go back onto the meshes of
\* structureGroup that still exist, the map is emptied, the selection nulled
GC_clearHighlight(u) ==
    [u EXCEPT !.mats = [i \in 1..Len(u.mats) |->
                            IF i \in DOMAIN u.map THEN u.map[i] ELSE u.mats[i]],
              !.map = EmptyMap,
              !.sel = FALSE]

\* faulty variant: the placed clone groups are left alone
GC_clearStructure_KeepsPlaced(u) ==
    LET h == GC_clearHighlight(u)
        activeIds == IF h.active # <<>> THEN {h.active[1].id} ELSE {}
    IN  [h EXCEPT !.group = <<>>,
                  !.mats = <<>>,
                  !.base = <<>>,
                  !.scene = @ \ activeIds,
                  !.active = <<>>,
                  !.moving = FALSE,
                  !.controls = TRUE]

\* clearStructure of part_000: highlight, children of structureGroup, base
\* plate, placed clone groups and the active clone go; the interaction
\* state is reset
GC_clearStructure(u) ==
    LET h == GC_clearHighlight(u)
        placedIds == {h.placed[i].id : i \in 1..Len(h.placed)}
        activeIds == IF h.active # <<>> THEN {h.active[1].id} ELSE {}
    IN  [h EXCEPT !.group = <<>>,
                  !.mats = <<>>,
                  !.base = <<>>,
                  !.scene = (@ \ placedIds) \ activeIds,
                  !.placed = <<>>,
                  !.active = <<>>,
                  !.moving = FALSE,
                  !.controls = TRUE]

\* buildStructure of part_000: clearStructure only when interaction state
\* is active, then the build; new meshes are added to structureGroup
GC_buildStructure(u, data) ==
    LET c == IF u.sel \/ u.moving \/ u.active # <<>> THEN GC_clearStructure(u) ELSE u
    IN  IF ~IsArray(data) THEN [c EXCEPT !.outcome = "notArray"]
        ELSE LET byId == IndexRecords(data.items, EmptyMap)
             IN  IF ~("1" \in DOMAIN byId /\ byId["1"].type = "base")
                    \/ ~Truthy(getBrickDefinition("base"))
                 THEN [c EXCEPT !.outcome = "missingBase"]
                 ELSE LET st == GC_Loop(byId, [meshes |-> Put(EmptyMap, "1", BaseMesh),
                                               group |-> c.group,
                                               processed |-> MarkProcessed({}, "1"),
                                               queue |-> <<byId["1"].id>>,
                                               thrown |-> FALSE])
                      IN  [c EXCEPT !.base = <<BaseMesh>>,
                                    !.group = st.group,
                                    !.mats = [i \in 1..Len(st.group) |->
                                                 IF i <= Len(c.mats) THEN c.mats[i] ELSE "own"],
                                    !.outcome = IF st.thrown THEN "thrown" ELSE "ok"]

\* snapToGridGroup: x and z to the nearest multiple of STUD_SIZE (Math.round),
\* y to the grid level
snapToGridGroup(position) ==
    <<((2 * position[1] + STUD_SIZE) \div (2 * STUD_SIZE)) * STUD_SIZE,
      GRID_Y_POSITION + PLATE_HEIGHT \div 2,
      ((2 * position[3] + STUD_SIZE) \div (2 * STUD_SIZE)) * STUD_SIZE>>

\* event.key.toLowerCase() for the keys of the model
toLowerCase(key) == IF key = "C" THEN "c" ELSE key

Keys == {"c", "C", "ArrowUp", "ArrowDown", "ArrowLeft", "ArrowRight", "Escape", "x"}

\* onSelectClick; hit says whether the ray meets a child of structureGroup
GC_onSelectClickResult(u, hit) ==
    IF u.moving THEN u
    ELSE LET h == GC_clearHighlight(u)
         IN  IF hit
             THEN [h EXCEPT !.sel = TRUE,
                            !.map = [i \in 1..Len(h.mats) |-> h.mats[i]],
                            !.mats = [i \in 1..Len(h.mats) |-> "highlight"]]
             ELSE h

\* the position of the active clone group after an arrow key
GC_Moved(pos, key) ==
    CASE key = "ArrowUp"    -> snapToGridGroup(<<pos[1], pos[2], pos[3] - MOVEMENT_INCREMENT>>)
      [] key = "ArrowDown"  -> snapToGridGroup(<<pos[1], pos[2], pos[3] + MOVEMENT_INCREMENT>>)
      [] key = "ArrowLeft"  -> snapToGridGroup(<<pos[1] - MOVEMENT_INCREMENT, pos[2], pos[3]>>)
      [] key = "ArrowRight" -> snapToGridGroup(<<pos[1] + MOVEMENT_INCREMENT, pos[2], pos[3]>>)
      [] OTHER -> pos

\* onKeyDown: 'c' places the moving clone or clones the selected structure;
\* else, while a clone is moved, the arrow-key branch; else Escape
GC_onKeyDownResult(u, key) ==
    IF toLowerCase(key) = "c"
    THEN IF u.moving
         THEN IF u.active # <<>>
              THEN [u EXCEPT !.moving = FALSE,
                             !.controls = TRUE,
                             !.placed = Append(@, [u.active[1] EXCEPT !.transparent = FALSE]),
                             !.active = <<>>]
              ELSE [u EXCEPT !.moving = FALSE, !.controls = TRUE]
         ELSE IF u.sel
              THEN LET h == GC_clearHighlight([u EXCEPT !.moving = TRUE, !.controls = FALSE])
                       clone == [id |-> Len(h.placed) + 1, children |-> Len(h.group),
                                 transparent |-> TRUE,
                                 pos |-> snapToGridGroup(<<0, GRID_Y_POSITION + PLATE_HEIGHT \div 2, 0>>)]
                   IN  [h EXCEPT !.active = <<clone>>, !.scene = @ \cup {clone.id}]
              ELSE u
    ELSE IF u.moving /\ u.active # <<>>
    THEN [u EXCEPT !.active = <<[u.active[1] EXCEPT !.pos = GC_Moved(@, key)]>>]
    ELSE IF key = "Escape"
    THEN IF u.moving /\ u.active # <<>>
         THEN [u EXCEPT !.scene = @ \ {u.active[1].id},
                        !.active = <<>>,
                        !.moving = FALSE,
                        !.controls = TRUE]
         ELSE IF u.sel THEN GC_clearHighlight(u)
         ELSE u
    ELSE u

Abs(n) == IF n < 0 THEN -n ELSE n

\* the bounds of the model: the number of clone groups and the distance of
\* the moving clone from its start
GC_WithinBounds(u) ==
    /\ Len(u.placed) + Len(u.active) <= MaxClones
    /\ u.active # <<>> =>
           Abs(u.active[1].pos[1]) + Abs(u.active[1].pos[3]) <= MaxShift * STUD_SIZE

GC_Unchanged ==
    UNCHANGED <<caller, buildVars, firstBuilt, clickedWhileLoading, catalogVars, variantVars>>

\* a click on the canvas
GC_onSelectClick ==
    /\ pc \in {"loading", "idle"}
    /\ \E hit \in BOOLEAN :
           /\ hit => Len(structureGroup) > 0
           /\ GC_Set(GC_onSelectClickResult(GC_State, hit))
    /\ UNCHANGED <<pc, jsonData, currentJsonIndex, cycleBtnDisabled, cycledFrom>>
    /\ GC_Unchanged

\* a key press
GC_onKeyDown ==
    /\ pc \in {"loading", "idle"}
    /\ \E key \in Keys :
           LET u == GC_onKeyDownResult(GC_State, key)
           IN  GC_WithinBounds(u) /\ GC_Set(u)
    /\ UNCHANGED <<pc, jsonData, currentJsonIndex, cycleBtnDisabled, cycledFrom>>
    /\ GC_Unchanged

\* a click on the cycle button
GC_cycleStructure ==
    /\ pc \in {"loading", "idle"}
    /\ ~cycleBtnDisabled
    /\ IF Len(jsonData) = 0
       THEN UNCHANGED <<currentJsonIndex, cycledFrom, uiVars, sceneVars, outcome>>
       ELSE LET next == (currentJsonIndex + 1) % Len(jsonData)
            IN  /\ currentJsonIndex' = next
                /\ IF ~IsArray(jsonData[next + 1].data)
                   THEN UNCHANGED <<cycledFrom, uiVars, sceneVars, outcome>>
                   ELSE /\ cycledFrom' = <<PageSummary(GC_State)>>
                        /\ GC_Set(GC_buildStructure(GC_clearStructure(GC_State),
                                                 jsonData[next + 1].data))
    /\ UNCHANGED <<pc, jsonData, cycleBtnDisabled>>
    /\ GC_Unchanged

\* init of part_000 after the fetch: the first structure is built; an
\* exception of the build is caught and disables the button
GC_LoadComplete(file) ==
    /\ pc = "loading"
    /\ pc' = "idle"
    /\ jsonData' = file
    /\ UNCHANGED <<currentJsonIndex, cycledFrom>>
    /\ IF Len(file) > 0
       THEN LET u == GC_buildStructure(GC_State, file[currentJsonIndex + 1].data)
            IN  /\ GC_Set(u)
                /\ cycleBtnDisabled' = (u.outcome = "thrown")
       ELSE /\ cycleBtnDisabled' = TRUE
            /\ UNCHANGED <<uiVars, sceneVars, outcome>>
    /\ GC_Unchanged

GC_LoadFailed ==
    /\ pc = "loading"
    /\ pc' = "idle"
    /\ cycleBtnDisabled' = TRUE
    /\ UNCHANGED <<jsonData, currentJsonIndex, cycledFrom, uiVars, sceneVars, outcome>>
    /\ GC_Unchanged

\* structures.json of the clone variants
GC_Files ==
    {<<>>,
     <<Structure(Json1)>>,
     <<Structure(Json1), Structure(Json3)>>,
     <<Structure(Json3), Structure(NoBase)>>,
     <<Structure(Json1), [data |-> NotAnArray]>>,
     <<Structure(Json3), Structure(Thrower)>>,
     <<Structure(Thrower), Structure(Json1)>>}

CloneNext ==
    \/ \E file \in GC_Files : GC_LoadComplete(file)
    \/ GC_LoadFailed
    \/ GC_cycleStructure
    \/ GC_onSelectClick
    \/ GC_onKeyDown

CloneSpec == Init /\ [][CloneNext]_vars

----------------------------------------------------------------------------
(* The variant src/script6.js.  Its page state is that of part_000 (the    *)
(* record GC_State), its catalog and its build loop are those of part_000  *)
(* word for word; clearStructure, the head of buildStructure and           *)
(* cycleStructure differ.  Its definitions carry the prefix S6_.           *)

S6_clearHighlight(u) ==
    [u EXCEPT !.mats = [i \in 1..Len(u.mats) |->
                            IF i \in DOMAIN u.map THEN u.map[i] ELSE u.mats[i]],
              !.map = EmptyMap,
              !.sel = FALSE]

\* clearStructure of script6.js: the children of structureGroup and the base
\* plate go, userPlacedGroups is left alone, an active clone is removed from
\* the scene and the interaction state is reset
S6_clearStructure(u) ==
    LET h == S6_clearHighlight(u)
        activeIds == IF h.active # <<>> THEN {h.active[1].id} ELSE {}
    IN  [h EXCEPT !.group = <<>>,
                  !.mats = <<>>,
                  !.base = <<>>,
                  !.scene = @ \ activeIds,
                  !.active = <<>>,
                  !.moving = FALSE,
                  !.controls = TRUE]

\* buildStructure of script6.js: the interaction state is reset when it is
\* active, a non-empty structureGroup is emptied, then the build
S6_buildStructure(u, data) ==
    LET r == IF u.sel \/ u.moving \/ u.active # <<>>
             THEN LET h == S6_clearHighlight(u)
                  IN  [h EXCEPT !.moving = FALSE,
                                !.scene = IF h.active # <<>> THEN @ \ {h.active[1].id} ELSE @,
                                !.active = <<>>,
                                !.controls = TRUE]
             ELSE u
        c == IF Len(r.group) > 0 THEN [r EXCEPT !.group = <<>>, !.mats = <<>>] ELSE r
    IN  IF ~IsArray(data) THEN [c EXCEPT !.outcome = "notArray"]
        ELSE LET byId == IndexRecords(data.items, EmptyMap)
             IN  IF ~("1" \in DOMAIN byId /\ byId["1"].type = "base")
                    \/ ~Truthy(getBrickDefinition("base"))
                 THEN [c EXCEPT !.outcome = "missingBase"]
                 ELSE LET st == GC_Loop(byId, [meshes |-> Put(EmptyMap, "1", BaseMesh),
                                               group |-> c.group,
                                               processed |-> MarkProcessed({}, "1"),
                                               queue |-> <<byId["1"].id>>,
                                               thrown |-> FALSE])
                      IN  [c EXCEPT !.base = <<BaseMesh>>,
                                    !.group = st.group,
                                    !.mats = [i \in 1..Len(st.group) |-> "own"],
                                    !.outcome = IF st.thrown THEN "thrown" ELSE "ok"]

\* onSelectClick of script6.js; hit says whether the ray meets a child of
\* structureGroup
S6_onSelectClickResult(u, hit) ==
    IF u.moving THEN u
    ELSE LET h == S6_clearHighlight(u)
         IN  IF hit
             THEN [h EXCEPT !.sel = TRUE,
                            !.map = [i \in 1..Len(h.mats) |-> h.mats[i]],
                            !.mats = [i \in 1..Len(h.mats) |-> "highlight"]]
             ELSE h

\* onKeyDown of script6.js
S6_onKeyDownResult(u, key) ==
    IF toLowerCase(key) = "c"
    THEN IF u.moving
         THEN IF u.active # <<>>
              THEN [u EXCEPT !.moving = FALSE,
                             !.controls = TRUE,
                             !.placed = Append(@, [u.active[1] EXCEPT !.transparent = FALSE]),
                             !.active = <<>>]
              ELSE [u EXCEPT !.moving = FALSE, !.controls = TRUE]
         ELSE IF u.sel
              THEN LET h == S6_clearHighlight([u EXCEPT !.moving = TRUE, !.controls = FALSE])
                       clone == [id |-> Len(h.placed) + 1, children |-> Len(h.group),
                                 transparent |-> TRUE,
                                 pos |-> snapToGridGroup(<<0, GRID_Y_POSITION + PLATE_HEIGHT \div 2, 0>>)]
                   IN  [h EXCEPT !.active = <<clone>>, !.scene = @ \cup {clone.id}]
              ELSE u
    ELSE IF u.moving /\ u.active # <<>>
    THEN [u EXCEPT !.active = <<[u.active[1] EXCEPT !.pos = GC_Moved(@, key)]>>]
    ELSE IF key = "Escape"
    THEN IF u.moving /\ u.active # <<>>
         THEN [u EXCEPT !.scene = @ \ {u.active[1].id},
                        !.active = <<>>,
                        !.moving = FALSE,
                        !.controls = TRUE]
         ELSE IF u.sel THEN S6_clearHighlight(u)
         ELSE u
    ELSE u

\* a click on the canvas
S6_onSelectClick ==
    /\ pc \in {"loading", "idle"}
    /\ \E hit \in BOOLEAN :
           /\ hit => Len(structureGroup) > 0
           /\ GC_Set(S6_onSelectClickResult(GC_State, hit))
    /\ UNCHANGED <<pc, jsonData, currentJsonIndex, cycleBtnDisabled, cycledFrom>>
    /\ GC_Unchanged

\* a key press
S6_onKeyDown ==
    /\ pc \in {"loading", "idle"}
    /\ \E key \in Keys :
           LET u == S6_onKeyDownResult(GC_State, key)
           IN  GC_WithinBounds(u) /\ GC_Set(u)
    /\ UNCHANGED <<pc, jsonData, currentJsonIndex, cycleBtnDisabled, cycledFrom>>
    /\ GC_Unchanged

\* a click on the cycle button: cycleStructure of script6.js
S6_cycleStructure ==
    /\ pc \in {"loading", "idle"}
    /\ ~cycleBtnDisabled
    /\ IF Len(jsonData) = 0
       THEN UNCHANGED <<currentJsonIndex, cycledFrom, uiVars, sceneVars, outcome>>
       ELSE LET next == (currentJsonIndex + 1) % Len(jsonData)
            IN  /\ currentJsonIndex' = next
                /\ IF ~IsArray(jsonData[next + 1].data)
                   THEN UNCHANGED <<cycledFrom, uiVars, sceneVars, outcome>>
                   ELSE /\ cycledFrom' = <<PageSummary(GC_State)>>
                        /\ GC_Set(S6_buildStructure(S6_clearStructure(GC_State),
                                                 jsonData[next + 1].data))
    /\ UNCHANGED <<pc, jsonData, cycleBtnDisabled>>
    /\ GC_Unchanged

\* init of script6.js after the fetch
S6_LoadComplete(file) ==
    /\ pc = "loading"
    /\ pc' = "idle"
    /\ jsonData' = file
    /\ UNCHANGED <<currentJsonIndex, cycledFrom>>
    /\ IF Len(file) > 0
       THEN LET u == S6_buildStructure(GC_State, file[currentJsonIndex + 1].data)
            IN  /\ GC_Set(u)
                /\ cycleBtnDisabled' = (u.outcome = "thrown")
       ELSE /\ cycleBtnDisabled' = TRUE
            /\ UNCHANGED <<uiVars, sceneVars, outcome>>
    /\ GC_Unchanged

S6_LoadFailed ==
    /\ pc = "loading"
    /\ pc' = "idle"
    /\ cycleBtnDisabled' = TRUE
    /\ UNCHANGED <<jsonData, currentJsonIndex, cycledFrom, uiVars, sceneVars, outcome>>
    /\ GC_Unchanged

Script6Next ==
    \/ \E file \in GC_Files : S6_LoadComplete(file)
    \/ S6_LoadFailed
    \/ S6_cycleStructure
    \/ S6_onSelectClick
    \/ S6_onKeyDown

Script6Spec == Init /\ [][Script6Next]_vars

----------------------------------------------------------------------------
(* The single-brick clone variant src/script3.js.  Its catalog and its     *)
(* build loop are those of script.js; a click selects one brick of the     *)
(* structure, 'c' clones it and places the clone.  Its definitions carry   *)
(* the prefix S3_.  A material is a record: kind says which object it is   *)
(* (the material built for child mesh of structureGroup, the shared        *)
(* highlightMaterial, or a copy made by material.clone()), and transparent *)
(* is its property of that name.                                           *)

\* new THREE.MeshStandardMaterial(...) of the i-th mesh added by the build
BuildMaterial(i) == [kind |-> "own", src |-> "none", mesh |-> i, transparent |-> FALSE]

highlightMaterial == [kind |-> "highlight", src |-> "none", mesh |-> 0, transparent |-> FALSE]

\* material.clone(): a new material with the properties of m
MaterialClone(m) == [kind |-> "copy", src |-> m.kind, mesh |-> m.mesh, transparent |-> m.transparent]

\* faulty variant: x and z are not rounded
snapToGrid_NoRounding(position) ==
    <<position[1], GRID_Y_POSITION + PLATE_HEIGHT \div 2, position[3]>>

\* snapToGrid of script2.js and script3.js
snapToGrid(position) ==
    <<((2 * position[1] + STUD_SIZE) \div (2 * STUD_SIZE)) * STUD_SIZE,
      GRID_Y_POSITION + PLATE_HEIGHT \div 2,
      ((2 * position[3] + STUD_SIZE) \div (2 * STUD_SIZE)) * STUD_SIZE>>

\* the state of the page that the handlers of script3.js read and write
S3_State ==
    [selectedOriginal |-> selectedOriginal, activeClone |-> activeClone,
     isMovingClone |-> isMovingClone, originalSelectedMaterial |-> originalSelectedMaterial,
     originalCloneMaterial |-> originalCloneMaterial, controls |-> controlsEnabled,
     userBricks |-> userBricks, mats |-> meshMaterial, base |-> basePlateMesh,
     group |-> structureGroup, outcome |-> outcome]

\* the handler leaves the page in state u
S3_Set(u) ==
    /\ selectedOriginal' = u.selectedOriginal
    /\ activeClone' = u.activeClone
    /\ isMovingClone' = u.isMovingClone
    /\ originalSelectedMaterial' = u.originalSelectedMaterial
    /\ originalCloneMaterial' = u.originalCloneMaterial
    /\ controlsEnabled' = u.controls
    /\ userBricks' = u.userBricks
    /\ meshMaterial' = u.mats
    /\ basePlateMesh' = u.base
    /\ structureGroup' = u.group
    /\ outcome' = u.outcome

\* clearStructure of script3.js: the children of structureGroup, the base
\* plate, the placed clones and the moving clone go; the interaction state
\* is reset
S3_clearStructure(u) ==
    [u EXCEPT !.group = <<>>,
              !.mats = <<>>,
              !.base = <<>>,
              !.userBricks = <<>>,
              !.activeClone = <<>>,
              !.selectedOriginal = <<>>,
              !.originalSelectedMaterial = <<>>,
              !.originalCloneMaterial = <<>>,
              !.isMovingClone = FALSE,
              !.controls = TRUE]

\* the forEach over the holes of one brick in the build loop of script3.js
RECURSIVE S3_Holes(_, _, _, _)
S3_Holes(byId, key, i, st) ==
    LET holes == byId[key].holes
    IN  IF i > Len(holes) \/ st.thrown THEN st
        ELSE LET holeData == holes[i]
                 act == HoleAction(byId[key].type, holeData, st.processed, byId)
                 target == String(holeData.brick)
             IN  S3_Holes(byId, key, i + 1,
                    CASE act = "skip" -> st
                      [] act = "dangling" ->
                            [st EXCEPT !.processed = MarkProcessed(@, target)]
                      [] act = "place" ->
                            LET newMesh == PlaceMesh(st.meshes[key], byId[key].type, holeData,
                                                     target, byId[target].type)
                            IN  [st EXCEPT !.meshes = Put(@, target, newMesh),
                                           !.group = Append(@, newMesh),
                                           !.processed = MarkProcessed(@, target),
                                           !.queue = Append(@, Str(target))]
                      [] act = "throw" -> [st EXCEPT !.thrown = TRUE])

\* the while loop of buildStructure of script3.js
RECURSIVE S3_Loop(_, _)
S3_Loop(byId, st) ==
    IF st.queue = <<>> \/ st.thrown THEN st
    ELSE LET key == String(Head(st.queue))
             rest == [st EXCEPT !.queue = Tail(@)]
             iterate == /\ key \in DOMAIN byId /\ key \in DOMAIN st.meshes
                        /\ Truthy(getBrickDefinition(byId[key].type))
                        /\ "holes" \in DOMAIN byId[key]
         IN  S3_Loop(byId, IF iterate THEN S3_Holes(byId, key, 1, rest) ELSE rest)

\* buildStructure of script3.js: clearStructure, then the build of script.js
\* with a material of its own for every mesh
S3_buildStructure(u, data) ==
    LET c == S3_clearStructure(u)
    IN  IF ~IsArray(data) THEN [c EXCEPT !.outcome = "notArray"]
        ELSE LET byId == IndexRecords(data.items, EmptyMap)
             IN  IF ~("1" \in DOMAIN byId /\ byId["1"].type = "base")
                    \/ ~Truthy(getBrickDefinition("base"))
                 THEN [c EXCEPT !.outcome = "missingBase"]
                 ELSE LET st == S3_Loop(byId, [meshes |-> Put(EmptyMap, "1", BaseMesh),
                                               group |-> <<>>,
                                               processed |-> MarkProcessed({}, "1"),
                                               queue |-> <<byId["1"].id>>,
                                               thrown |-> FALSE])
                      IN  [c EXCEPT !.base = <<BaseMesh>>,
                                    !.group = st.group,
                                    !.mats = [i \in 1..Len(st.group) |-> BuildMaterial(i)],
                                    !.outcome = IF st.thrown THEN "thrown" ELSE "ok"]

\* faulty variant: the click is handled while a clone is moved
S3_onSelectClickResult_IgnoresMoving(u, hit) ==
    LET restore == u.selectedOriginal # <<>> /\ u.originalSelectedMaterial # <<>>
        r == [u EXCEPT !.mats = IF restore
                                THEN [@ EXCEPT ![u.selectedOriginal[1]] =
                                                   u.originalSelectedMaterial[1]]
                                ELSE @,
                       !.originalSelectedMaterial = IF restore THEN <<>> ELSE @,
                       !.selectedOriginal = <<>>]
    IN  IF hit = 0 THEN r
        ELSE IF r.mats[hit] # highlightMaterial
             THEN [r EXCEPT !.selectedOriginal = <<hit>>,
                            !.originalSelectedMaterial = <<r.mats[hit]>>,
                            !.mats = [@ EXCEPT ![hit] = highlightMaterial]]
             ELSE [r EXCEPT !.selectedOriginal = <<hit>>]

\* onSelectClick of script3.js; hit is 0 when the ray meets no child of
\* structureGroup, else the index of the first child it meets
S3_onSelectClickResult(u, hit) ==
    IF u.isMovingClone THEN u
    ELSE LET restore == u.selectedOriginal # <<>> /\ u.originalSelectedMaterial # <<>>
             r == [u EXCEPT !.mats = IF restore
                                     THEN [@ EXCEPT ![u.selectedOriginal[1]] =
                                                        u.originalSelectedMaterial[1]]
                                     ELSE @,
                            !.originalSelectedMaterial = IF restore THEN <<>> ELSE @,
                            !.selectedOriginal = <<>>]
         IN  IF hit = 0 THEN r
             ELSE IF r.mats[hit] # highlightMaterial
                  THEN [r EXCEPT !.selectedOriginal = <<hit>>,
                                 !.originalSelectedMaterial = <<r.mats[hit]>>,
                                 !.mats = [@ EXCEPT ![hit] = highlightMaterial]]
                  ELSE [r EXCEPT !.selectedOriginal = <<hit>>]

\* the position of the active clone after an arrow key
S3_Moved(pos, key) ==
    CASE key = "ArrowUp"    -> snapToGrid(<<pos[1], pos[2], pos[3] - MOVEMENT_INCREMENT>>)
      [] key = "ArrowDown"  -> snapToGrid(<<pos[1], pos[2], pos[3] + MOVEMENT_INCREMENT>>)
      [] key = "ArrowLeft"  -> snapToGrid(<<pos[1] - MOVEMENT_INCREMENT, pos[2], pos[3]>>)
      [] key = "ArrowRight" -> snapToGrid(<<pos[1] + MOVEMENT_INCREMENT, pos[2], pos[3]>>)
      [] OTHER -> pos

\* onKeyDown of script3.js: 'c' places the moving clone or clones the
\* selected brick; else, while a clone is moved, the arrow-key branch; else
\* Escape
S3_onKeyDownResult(u, key) ==
    IF toLowerCase(key) = "c"
    THEN IF u.isMovingClone
         THEN IF u.activeClone # <<>>
              THEN LET given == IF u.originalCloneMaterial # <<>>
                                THEN u.originalCloneMaterial[1]
                                ELSE u.activeClone[1].material
                       placed == [u.activeClone[1] EXCEPT
                                     !.material = [given EXCEPT !.transparent = FALSE]]
                   IN  [u EXCEPT !.isMovingClone = FALSE,
                                 !.controls = TRUE,
                                 !.userBricks = Append(@, placed),
                                 !.activeClone = <<>>,
                                 !.originalCloneMaterial = <<>>]
              ELSE u
         ELSE IF u.selectedOriginal # <<>>
              THEN LET i == u.selectedOriginal[1]
                       \* Mesh.clone() shares the material of the source mesh
                       shared == u.mats[i]
                       clone == [material |-> [MaterialClone(shared) EXCEPT !.transparent = TRUE],
                                 pos |-> snapToGrid(u.group[i].pos)]
                   IN  [u EXCEPT !.isMovingClone = TRUE,
                                 !.controls = FALSE,
                                 !.activeClone = <<clone>>,
                                 !.originalCloneMaterial = <<shared>>,
                                 !.mats = IF u.originalSelectedMaterial # <<>>
                                          THEN [@ EXCEPT ![i] = u.originalSelectedMaterial[1]]
                                          ELSE @]
              ELSE u
    ELSE IF u.isMovingClone /\ u.activeClone # <<>>
    THEN [u EXCEPT !.activeClone = <<[u.activeClone[1] EXCEPT !.pos = S3_Moved(@, key)]>>]
    ELSE IF key = "Escape"
    THEN IF u.isMovingClone /\ u.activeClone # <<>>
         THEN [u EXCEPT !.mats = IF u.selectedOriginal # <<>> /\ u.originalSelectedMaterial # <<>>
                                 THEN [@ EXCEPT ![u.selectedOriginal[1]] =
                                                    u.originalSelectedMaterial[1]]
                                 ELSE @,
                        !.activeClone = <<>>,
                        !.isMovingClone = FALSE,
                        !.originalCloneMaterial = <<>>,
                        !.controls = TRUE]
         ELSE u
    ELSE u

\* the bounds of the model: the number of clones and the distance of the
\* moving clone from where it started, the snapped position of its original
S3_WithinBounds(u) ==
    /\ Len(u.userBricks) + Len(u.activeClone) <= MaxClones
    /\ u.activeClone # <<>> /\ u.selectedOriginal # <<>> =>
           LET start == snapToGrid(u.group[u.selectedOriginal[1]].pos)
               pos == u.activeClone[1].pos
           IN  Abs(pos[1] - start[1]) + Abs(pos[3] - start[3]) <= MaxShift * STUD_SIZE

S3_Unchanged ==
    UNCHANGED <<caller, buildVars, firstBuilt, clickedWhileLoading, cycledFrom, catalogVars,
                selectedStructureGroup, activeCloneGroup, isMovingCloneGroup, userPlacedGroups,
                sceneClones, originalMaterialsMap, s2Vars>>

\* a click on the canvas
S3_onSelectClick ==
    /\ pc \in {"loading", "idle"}
    /\ \E hit \in 0..Len(structureGroup) : S3_Set(S3_onSelectClickResult(S3_State, hit))
    /\ UNCHANGED <<pc, jsonData, currentJsonIndex, cycleBtnDisabled>>
    /\ S3_Unchanged

\* a key press
S3_onKeyDown ==
    /\ pc \in {"loading", "idle"}
    /\ \E key \in Keys :
           LET u == S3_onKeyDownResult(S3_State, key)
           IN  S3_WithinBounds(u) /\ S3_Set(u)
    /\ UNCHANGED <<pc, jsonData, currentJsonIndex, cycleBtnDisabled>>
    /\ S3_Unchanged

\* a click on the cycle button: cycleStructure of script3.js
S3_cycleStructure ==
    /\ pc \in {"loading", "idle"}
    /\ ~cycleBtnDisabled
    /\ IF Len(jsonData) = 0
       THEN UNCHANGED <<currentJsonIndex, s3Vars, userBricks, controlsEnabled, meshMaterial,
                        sceneVars, outcome>>
       ELSE LET next == (currentJsonIndex + 1) % Len(jsonData)
            IN  /\ currentJsonIndex' = next
                /\ IF ~IsArray(jsonData[next + 1].data)
                   THEN UNCHANGED <<s3Vars, userBricks, controlsEnabled, meshMaterial,
                                    sceneVars, outcome>>
                   ELSE S3_Set(S3_buildStructure(S3_State, jsonData[next + 1].data))
    /\ UNCHANGED <<pc, jsonData, cycleBtnDisabled>>
    /\ S3_Unchanged

\* init of script3.js after the fetch: the first structure is built; an
\* exception of the build is caught and disables the button
S3_LoadComplete(file) ==
    /\ pc = "loading"
    /\ pc' = "idle"
    /\ jsonData' = file
    /\ UNCHANGED currentJsonIndex
    /\ IF Len(file) > 0
       THEN LET u == S3_buildStructure(S3_State, file[currentJsonIndex + 1].data)
            IN  /\ S3_Set(u)
                /\ cycleBtnDisabled' = (u.outcome = "thrown")
       ELSE /\ cycleBtnDisabled' = TRUE
            /\ UNCHANGED <<s3Vars, userBricks, controlsEnabled, meshMaterial, sceneVars, outcome>>
    /\ S3_Unchanged

S3_LoadFailed ==
    /\ pc = "loading"
    /\ pc' = "idle"
    /\ cycleBtnDisabled' = TRUE
    /\ UNCHANGED <<jsonData, currentJsonIndex, s3Vars, userBricks, controlsEnabled,
                   meshMaterial, sceneVars, outcome>>
    /\ S3_Unchanged

\* two 1x1 bricks side by side on the base plate
TwoOnBase ==
    <<Rec(Str("1"), "base", <<Hole(0, Str("2"), 1, 0), Hole(1, Str("3"), 1, 0)>>),
      Rec(Str("2"), "1x1", <<Unused(0), Hole(1, Str("1"), 0, 0)>>),
      Rec(Str("3"), "1x1", <<Unused(0), Hole(1, Str("1"), 1, 0)>>)>>

\* the files structures.json of the model of script3.js
S3_Files ==
    {<<>>,
     <<Structure(TwoOnBase)>>,
     <<Structure(TwoOnBase), Structure(Json3)>>,
     <<Structure(Json3), Structure(NoBase)>>,
     <<Structure(Json1), [data |-> NotAnArray]>>,
     <<Structure(Thrower), Structure(TwoOnBase)>>}

Script3Next ==
    \/ \E file \in S3_Files : S3_LoadComplete(file)
    \/ S3_LoadFailed
    \/ S3_cycleStructure
    \/ S3_onSelectClick
    \/ S3_onKeyDown

Script3Spec == Init /\ [][Script3Next]_vars

----------------------------------------------------------------------------
(* The drag variant src/script2.js: a press of the right button on a brick *)
(* of the structure clones it, the clone follows the pointer over the grid *)
(* plane, and the release of the right button leaves it where it is.  Its  *)
(* catalog, its build loop and its snapToGrid are those of script3.js.     *)
(* The 'start' and 'end' events of OrbitControls come from the library,    *)
(* which is not part of the repository: they are events of the             *)
(* environment.  Its definitions carry the prefix S2_.                     *)

\* the state of the page that the handlers of script2.js read and write
S2_State ==
    [isDragging |-> isDragging, clonedMesh |-> clonedMesh,
     originalDraggedMaterial |-> originalDraggedMaterial, controls |-> controlsEnabled,
     userBricks |-> userBricks, mats |-> meshMaterial, base |-> basePlateMesh,
     group |-> structureGroup, outcome |-> outcome]

\* the handler leaves the page in state u
S2_Set(u) ==
    /\ isDragging' = u.isDragging
    /\ clonedMesh' = u.clonedMesh
    /\ originalDraggedMaterial' = u.originalDraggedMaterial
    /\ controlsEnabled' = u.controls
    /\ userBricks' = u.userBricks
    /\ meshMaterial' = u.mats
    /\ basePlateMesh' = u.base
    /\ structureGroup' = u.group
    /\ outcome' = u.outcome

\* clearStructure of script2.js: the children of structureGroup, the base
\* plate and every other mesh of the scene go, a dragged clone included;
\* the drag state and the controls are not touched
S2_clearStructure(u) ==
    [u EXCEPT !.group = <<>>,
              !.mats = <<>>,
              !.base = <<>>,
              !.userBricks = <<>>,
              !.clonedMesh = IF @ = <<>> THEN @ ELSE <<[@[1] EXCEPT !.inScene = FALSE]>>]

\* buildStructure of script2.js: clearStructure, then the build; its while
\* loop is the loop of script3.js
S2_buildStructure(u, data) ==
    LET c == S2_clearStructure(u)
    IN  IF ~IsArray(data) THEN [c EXCEPT !.outcome = "notArray"]
        ELSE LET byId == IndexRecords(data.items, EmptyMap)
             IN  IF ~("1" \in DOMAIN byId /\ byId["1"].type = "base")
                    \/ ~Truthy(getBrickDefinition("base"))
                 THEN [c EXCEPT !.outcome = "missingBase"]
                 ELSE LET st == S3_Loop(byId, [meshes |-> Put(EmptyMap, "1", BaseMesh),
                                               group |-> <<>>,
                                               processed |-> MarkProcessed({}, "1"),
                                               queue |-> <<byId["1"].id>>,
                                               thrown |-> FALSE])
                      IN  [c EXCEPT !.base = <<BaseMesh>>,
                                    !.group = st.group,
                                    !.mats = [i \in 1..Len(st.group) |-> BuildMaterial(i)],
                                    !.outcome = IF st.thrown THEN "thrown" ELSE "ok"]

\* onPointerDown of script2.js; hit is 0 when the ray meets no child of
\* structureGroup, else the index of the first child it meets; point is the
\* value of intersectionPoint after intersectPlane, which is the point of
\* the grid plane under the pointer or, when the ray misses the plane, the
\* point left there by an earlier event.  A clone that is still dragged
\* when another drag starts stays in the scene as it is.
S2_onPointerDownResult(u, button, hit, point) ==
    IF button # 2 THEN u
    ELSE IF hit = 0 THEN u
    ELSE LET left == IF u.clonedMesh # <<>> /\ u.clonedMesh[1].inScene
                     THEN <<[material |-> u.clonedMesh[1].material, pos |-> u.clonedMesh[1].pos]>>
                     ELSE <<>>
             clone == [material |-> [MaterialClone(u.mats[hit]) EXCEPT !.transparent = TRUE],
                       pos |-> snapToGrid(point),
                       inScene |-> TRUE]
         IN  [u EXCEPT !.isDragging = TRUE,
                       !.controls = FALSE,
                       !.clonedMesh = <<clone>>,
                       !.originalDraggedMaterial = <<u.mats[hit]>>,
                       !.userBricks = @ \o left]

\* onPointerMove of script2.js; onPlane says whether the ray meets the
\* grid plane, at point
S2_onPointerMoveResult(u, onPlane, point) ==
    IF ~u.isDragging \/ u.clonedMesh = <<>> THEN u
    ELSE IF onPlane
    THEN [u EXCEPT !.clonedMesh = <<[@[1] EXCEPT !.pos = snapToGrid(point)]>>]
    ELSE u

\* onPointerUp of script2.js
S2_onPointerUpResult(u, button) ==
    LET dropped ==
            IF u.isDragging /\ button = 2
            THEN LET restore == u.clonedMesh # <<>> /\ u.originalDraggedMaterial # <<>>
                     mesh == [material |-> IF restore THEN u.originalDraggedMaterial[1]
                                           ELSE u.clonedMesh[1].material,
                              pos |-> u.clonedMesh[1].pos]
                 IN  [u EXCEPT !.originalDraggedMaterial = IF restore THEN <<>> ELSE @,
                               !.userBricks = IF u.clonedMesh[1].inScene
                                              THEN Append(@, mesh) ELSE @,
                               !.isDragging = FALSE,
                               !.clonedMesh = <<>>,
                               !.controls = TRUE]
            ELSE u
    IN  IF ~dropped.isDragging THEN [dropped EXCEPT !.controls = TRUE] ELSE dropped

\* the listener of the 'start' event of OrbitControls
S2_onControlsStartResult(u) == IF u.isDragging THEN [u EXCEPT !.controls = FALSE] ELSE u

\* the listener of the 'end' event of OrbitControls
S2_onControlsEndResult(u) == [u EXCEPT !.controls = TRUE]

\* the mouse buttons of a pointer event: left, middle, right
Buttons == {0, 1, 2}

\* points of the grid plane under the pointer
S2_Points == {<<0, 0, 0>>, <<7, 0, -33>>, <<-10, 0, 10>>}

\* the bound of the model: the number of clones
S2_WithinBounds(u) == Len(u.userBricks) + Len(u.clonedMesh) <= MaxClones

S2_Unchanged ==
    UNCHANGED <<caller, buildVars, firstBuilt, clickedWhileLoading, cycledFrom, catalogVars,
                selectedStructureGroup, activeCloneGroup, isMovingCloneGroup, userPlacedGroups,
                sceneClones, originalMaterialsMap, s3Vars>>

S2_onPointerDown ==
    /\ pc \in {"loading", "idle"}
    /\ \E button \in Buttons, hit \in 0..Len(structureGroup), point \in S2_Points :
           LET u == S2_onPointerDownResult(S2_State, button, hit, point)
           IN  S2_WithinBounds(u) /\ S2_Set(u)
    /\ UNCHANGED <<pc, jsonData, currentJsonIndex, cycleBtnDisabled>>
    /\ S2_Unchanged

S2_onPointerMove ==
    /\ pc \in {"loading", "idle"}
    /\ \E onPlane \in BOOLEAN, point \in S2_Points :
           S2_Set(S2_onPointerMoveResult(S2_State, onPlane, point))
    /\ UNCHANGED <<pc, jsonData, currentJsonIndex, cycleBtnDisabled>>
    /\ S2_Unchanged

S2_onPointerUp ==
    /\ pc \in {"loading", "idle"}
    /\ \E button \in Buttons : S2_Set(S2_onPointerUpResult(S2_State, button))
    /\ UNCHANGED <<pc, jsonData, currentJsonIndex, cycleBtnDisabled>>
    /\ S2_Unchanged

\* OrbitControls dispatches 'start'
S2_onControlsStart ==
    /\ pc \in {"loading", "idle"}
    /\ S2_Set(S2_onControlsStartResult(S2_State))
    /\ UNCHANGED <<pc, jsonData, currentJsonIndex, cycleBtnDisabled>>
    /\ S2_Unchanged

\* OrbitControls dispatches 'end'
S2_onControlsEnd ==
    /\ pc \in {"loading", "idle"}
    /\ S2_Set(S2_onControlsEndResult(S2_State))
    /\ UNCHANGED <<pc, jsonData, currentJsonIndex, cycleBtnDisabled>>
    /\ S2_Unchanged

\* a click on the cycle button: cycleStructure of script2.js
S2_cycleStructure ==
    /\ pc \in {"loading", "idle"}
    /\ ~cycleBtnDisabled
    /\ IF Len(jsonData) = 0
       THEN UNCHANGED <<currentJsonIndex, s2Vars, userBricks, controlsEnabled, meshMaterial,
                        sceneVars, outcome>>
       ELSE LET next == (currentJsonIndex + 1) % Len(jsonData)
            IN  /\ currentJsonIndex' = next
                /\ IF ~IsArray(jsonData[next + 1].data)
                   THEN UNCHANGED <<s2Vars, userBricks, controlsEnabled, meshMaterial,
                                    sceneVars, outcome>>
                   ELSE S2_Set(S2_buildStructure(S2_State, jsonData[next + 1].data))
    /\ UNCHANGED <<pc, jsonData, cycleBtnDisabled>>
    /\ S2_Unchanged

\* init of script2.js after the fetch: the first structure is built; an
\* exception of the build is caught and disables the button
S2_LoadComplete(file) ==
    /\ pc = "loading"
    /\ pc' = "idle"
    /\ jsonData' = file
    /\ UNCHANGED currentJsonIndex
    /\ IF Len(file) > 0
       THEN LET u == S2_buildStructure(S2_State, file[currentJsonIndex + 1].data)
            IN  /\ S2_Set(u)
                /\ cycleBtnDisabled' = (u.outcome = "thrown")
       ELSE /\ cycleBtnDisabled' = TRUE
            /\ UNCHANGED <<s2Vars, userBricks, controlsEnabled, meshMaterial, sceneVars, outcome>>
    /\ S2_Unchanged

S2_LoadFailed ==
    /\ pc = "loading"
    /\ pc' = "idle"
    /\ cycleBtnDisabled' = TRUE
    /\ UNCHANGED <<jsonData, currentJsonIndex, s2Vars, userBricks, controlsEnabled,
                   meshMaterial, sceneVars, outcome>>
    /\ S2_Unchanged

Script2Next ==
    \/ \E file \in S3_Files : S2_LoadComplete(file)
    \/ S2_LoadFailed
    \/ S2_cycleStructure
    \/ S2_onPointerDown
    \/ S2_onPointerMove
    \/ S2_onPointerUp
    \/ S2_onControlsStart
    \/ S2_onControlsEnd

Script2Spec == Init /\ [][Script2Next]_vars

----------------------------------------------------------------------------
TypeOK ==
    /\ pc \in {"loading", "idle", "bfs"}
    /\ outcome \in {"none", "running", "ok", "notArray", "missingBase", "thrown"}
    /\ (pc = "bfs") = (outcome = "running")
    /\ Len(cur) <= 1
    /\ clickedWhileLoading \in BOOLEAN

----------------------------------------------------------------------------
(* Vocabulary of the properties.                                           *)

\* the records of the input whose normalized id is k
RecordsWithId(records, k) ==
    {i \in 1..Len(records) : "id" \in DOMAIN records[i] /\ String(records[i].id) = k}

\* the input has no base: no record with id "1" is of type base
LacksBase(records) == \A i \in RecordsWithId(records, "1") : records[i].type # "base"

BuildFinished == pc = "idle" /\ outcome \in {"ok", "notArray", "missingBase", "thrown"}

HolesOf(k) ==
    IF k \in DOMAIN bricksById /\ "holes" \in DOMAIN bricksById[k] THEN bricksById[k].holes ELSE <<>>

RECURSIVE SumSeq(_)
SumSeq(q) == IF q = <<>> THEN 0 ELSE Head(q) + SumSeq(Tail(q))

Cost(k) == 1 + Len(HolesOf(k))

RECURSIVE SumCost(_)
SumCost(S) ==
    IF S = {} THEN 0 ELSE LET x == CHOOSE y \in S : TRUE IN Cost(x) + SumCost(S \ {x})

\* Work the loop still has before it: the holes left of the current brick,
\* one unit plus its holes for every queued id and for every record that
\* is not marked processed.
Rank ==
    LET queued == SumSeq([i \in 1..Len(queue) |-> Cost(String(queue[i]))])
        waiting == SumCost((DOMAIN bricksById) \ processedBrickIds)
        current == IF cur = <<>> THEN 0 ELSE Len(HolesOf(String(cur[1]))) - holeIdx + 1
    IN  queued + waiting + current

\* the non-base bricks that have a mesh
Placed == (DOMAIN threeMeshes) \ {"1"}

\* index in visits of the first top-socket connection to b that satisfies P
FirstVisit(b, P(_)) ==
    LET hits == {i \in 1..Len(visits) : visits[i].to = b /\ P(visits[i])}
    IN  IF hits = {} THEN 0 ELSE CHOOSE i \in hits : \A j \in hits : i <= j

AnyVisit(v) == TRUE
CarriesToHole(v) == "connectedToHole" \in DOMAIN v.hole

\* the transform that the placement logic computes from the visit v
TransformFrom(v) ==
    PlaceMesh(threeMeshes[v.from], bricksById[v.from].type, v.hole, v.to, bricksById[v.to].type)

AtMostOneMeshPerId ==
    /\ \A i, j \in 1..Len(structureGroup) :
           i # j => structureGroup[i].brick # structureGroup[j].brick
    /\ \A i \in 1..Len(structureGroup) :
           /\ structureGroup[i].brick # "1"
           /\ structureGroup[i].brick \in DOMAIN threeMeshes
           /\ threeMeshes[structureGroup[i].brick] = structureGroup[i]

\* the step examines a top-socket connection whose target already has a mesh
ExaminesPlacedTarget ==
    /\ Len(visits') = Len(visits) + 1
    /\ visits'[Len(visits')].to \in DOMAIN threeMeshes

----------------------------------------------------------------------------
(* C1: a build of a record list without a base (no record with id "1" of   *)
(* type base) ends as the fatal missing-base outcome with no base plate    *)
(* and an empty structure group, whatever was displayed before.            *)
C1_MissingBaseEmitsNothing ==
    (BuildFinished /\ IsArray(structureData) /\ LacksBase(structureData.items))
        => /\ outcome = "missingBase"
           /\ basePlateMesh = <<>>
           /\ structureGroup = <<>>

\* a structure without base was built by a click while Json1 was displayed
C1_Witness ==
    /\ BuildFinished
    /\ caller = "cycle"
    /\ currentJsonIndex = 1
    /\ jsonData[1] = Structure(Json1)
    /\ structureData = Array(NoBase)
    /\ structureGroup = <<>>

(* C2: the loop of buildStructure terminates: no id is pushed onto the     *)
(* queue twice, and every step of the loop strictly decreases the          *)
(* remaining work Rank, a natural number.                                  *)
C2_EnqueuedAtMostOnce == \A i, j \in 1..Len(pushed) : i # j => pushed[i] # pushed[j]

C2_Terminates ==
    /\ [](C2_EnqueuedAtMostOnce /\ Rank >= 0)
    /\ [][(pc = "bfs" /\ pc' = "bfs") => Rank' < Rank]_vars

\* a build finished on a graph with a cycle through top sockets ("2" -> "3" -> "2")
C2_Witness ==
    /\ BuildFinished /\ outcome = "ok"
    /\ \E i, j \in 1..Len(visits) :
           /\ visits[i].from = "2" /\ visits[i].to = "3"
           /\ visits[j].from = "3" /\ visits[j].to = "2"
    /\ \E i \in 1..Len(visits) : visits[i].from = visits[i].to

(* C3 as stated: at most one mesh per brick id; the transform of a placed  *)
(* brick is the one computed from the first top-socket edge to it in BFS   *)
(* order; a later edge to it changes nothing.                              *)
C3_FirstEdgeWins ==
    /\ [](/\ AtMostOneMeshPerId
          /\ \A b \in Placed :
                LET i == FirstVisit(b, AnyVisit)
                IN  /\ i # 0
                    /\ CarriesToHole(visits[i])
                    /\ threeMeshes[b] = TransformFrom(visits[i]))
    /\ [][ExaminesPlacedTarget
            => UNCHANGED <<threeMeshes, processedBrickIds, queue, structureGroup>>]_vars

(* C3 amended: at most one mesh per brick id; the transform of a placed    *)
(* brick is the one computed from the first top-socket edge to it in BFS   *)
(* order that carries connectedToHole; an edge to a brick that already has *)
(* a mesh leaves the meshes, the processed set and the queue unchanged.    *)
C3_FirstCompleteEdgeWins ==
    /\ [](/\ AtMostOneMeshPerId
          /\ \A b \in Placed :
                LET i == FirstVisit(b, CarriesToHole)
                IN  /\ i # 0
                    /\ threeMeshes[b] = TransformFrom(visits[i]))
    /\ [][ExaminesPlacedTarget
            => UNCHANGED <<threeMeshes, processedBrickIds, queue, structureGroup>>]_vars

\* brick "2" was placed from the second edge to it, the first one lacking
\* connectedToHole, and a third edge to it was examined afterwards
C3_Witness ==
    /\ "2" \in Placed
    /\ FirstVisit("2", AnyVisit) # 0
    /\ FirstVisit("2", AnyVisit) < FirstVisit("2", CarriesToHole)
    /\ \E i \in 1..Len(visits) : visits[i].to = "2" /\ i > FirstVisit("2", CarriesToHole)

----------------------------------------------------------------------------
(* Top-socket edges of the indexed input, read off the catalog.            *)

Catalogued(type) == type \in {"base", "3x1", "2x1", "1x1"}

\* hole id is on the face that accepts a child: every hole of a base, the
\* listed top holes of any other type
TopSocket(type, holeId) ==
    \/ type = "base"
    \/ type = "3x1" /\ holeId \in {0, 1, 2}
    \/ type = "2x1" /\ holeId \in {0, 1}
    \/ type = "1x1" /\ holeId = 0

IsConnection(holeData) ==
    /\ "brick" \in DOMAIN holeData /\ "id" \in DOMAIN holeData
    /\ String(holeData.brick) # "-1"

\* hole h of record a is a top-socket edge to b that can place b
ValidEdge(byId, a, h, b) ==
    /\ IsConnection(h)
    /\ String(h.brick) = b
    /\ Catalogued(byId[a].type)
    /\ TopSocket(byId[a].type, h.id)
    /\ b \in DOMAIN byId
    /\ Catalogued(byId[b].type)
    /\ "connectedToHole" \in DOMAIN h

HolesIn(byId, a) == IF "holes" \in DOMAIN byId[a] THEN byId[a].holes ELSE <<>>

RECURSIVE ReachFrom(_, _)
ReachFrom(byId, R) ==
    LET more == {b \in DOMAIN byId :
                    \E a \in R : \E i \in 1..Len(HolesIn(byId, a)) :
                        ValidEdge(byId, a, HolesIn(byId, a)[i], b)}
    IN  IF more \subseteq R THEN R ELSE ReachFrom(byId, R \cup more)

\* the bricks reachable from the base by a chain of valid top-socket edges
ValidReach == ReachFrom(bricksById, {"1"})

(* C4: when buildStructure succeeds, every brick reachable from the base   *)
(* by a chain of top-socket edges that name an existing record of a        *)
(* catalogued type and carry connectedToHole has a mesh, whatever its id.  *)
C4_ReachableBricksPlaced ==
    (BuildFinished /\ outcome = "ok") => \A b \in ValidReach : b \in DOMAIN threeMeshes

(* C5: every placed brick other than the base is the target of a           *)
(* top-socket connection of a brick that has a mesh itself.                *)
C5_PlacedOnlyFromPlacedTopSocket ==
    \A i \in 1..Len(structureGroup) :
        LET b == structureGroup[i].brick
        IN  \E a \in DOMAIN threeMeshes : \E k \in 1..Len(HolesOf(a)) :
                LET h == HolesOf(a)[k]
                IN  /\ IsConnection(h)
                    /\ String(h.brick) = b
                    /\ TopSocket(bricksById[a].type, h.id)

\* a finished build left out brick "3", which only a bottom hole of the
\* placed 2x1 brick "2" refers to
C5_Witness ==
    /\ BuildFinished /\ outcome = "ok"
    /\ "2" \in Placed /\ bricksById["2"].type = "2x1"
    /\ "3" \in DOMAIN bricksById /\ "3" \notin DOMAIN threeMeshes
    /\ \E k \in 1..Len(HolesOf("2")) :
           HolesOf("2")[k].id = 2 /\ String(HolesOf("2")[k].brick) = "3"
    /\ \A i \in 1..Len(visits) : visits[i].to # "3"

\* the hole that forEach visits next is a connection on a hole of a
\* non-base brick that is not one of its top holes
AtNonTopConnection ==
    /\ pc = "bfs" /\ cur # <<>>
    /\ LET a == String(cur[1])
           h == HolesOf(a)[holeIdx]
       IN  /\ IsConnection(h)
           /\ bricksById[a].type # "base"
           /\ ~TopSocket(bricksById[a].type, h.id)

(* C6: every connection that was looked up or that placed a brick starts   *)
(* at a top hole of its brick's type (any hole of a base); visiting a      *)
(* connection on a non-top hole of a non-base brick changes neither the    *)
(* lookups, the meshes, the processed set nor the queue.                   *)
C6_OnlyTopHolesFollowed ==
    /\ [](\A i \in 1..Len(edges) :
              TopSocket(bricksById[edges[i].from].type, edges[i].hole.id))
    /\ [][AtNonTopConnection
            => UNCHANGED <<lookups, threeMeshes, structureGroup, processedBrickIds, queue>>]_vars

\* the build has visited the bottom hole 2 of the placed 2x1 brick "2",
\* which names brick "3", and "3" is neither processed nor looked up
C6_Witness ==
    /\ "2" \in Placed /\ bricksById["2"].type = "2x1"
    /\ pc = "bfs" /\ cur = <<>>
    /\ Len(HolesOf("2")) = 2 /\ HolesOf("2")[2].id = 2 /\ String(HolesOf("2")[2].brick) = "3"
    /\ "2" \notin {String(queue[i]) : i \in 1..Len(queue)}
    /\ \E i \in 1..Len(visits) : visits[i].from = "2"
    /\ "3" \in DOMAIN bricksById /\ "3" \notin processedBrickIds
    /\ \A i \in 1..Len(lookups) : lookups[i] # "3"

----------------------------------------------------------------------------
(* Geometry of the placed bricks.                                          *)

\* world position of socket holeId of a brick of the given type under the
\* transform of mesh
SocketWorld(mesh, type, holeId) ==
    LET off == HoleOffsets(type, holeId)
        turned == CASE mesh.yaw = 0   -> off
                    [] mesh.yaw = 90  -> <<off[3], off[2], -off[1]>>
                    [] mesh.yaw = 180 -> <<-off[1], off[2], -off[3]>>
                    [] mesh.yaw = 270 -> <<-off[3], off[2], off[1]>>
    IN  <<mesh.pos[1] + turned[1], mesh.pos[2] + turned[2], mesh.pos[3] + turned[3]>>

OrientationOf(holeData) ==
    IF "orientation" \in DOMAIN holeData THEN holeData.orientation ELSE 0

(* C7: for every connection that placed a brick B on a brick A, socket     *)
(* connectedToHole of B and socket id of A have the same world position.   *)
C7_SocketsCoincide ==
    \A i \in 1..Len(edges) :
        LET e == edges[i]
        IN  e.to \in DOMAIN threeMeshes
            => SocketWorld(threeMeshes[e.to], bricksById[e.to].type, e.hole.connectedToHole)
                 = SocketWorld(threeMeshes[e.from], bricksById[e.from].type, e.hole.id)

\* a brick was placed with orientation 90 on a parent that is itself turned
\* by a quarter turn, on a socket off the parent's centre
C7_Witness ==
    \E i \in 1..Len(edges) :
        /\ threeMeshes[edges[i].from].yaw = 270
        /\ OrientationOf(edges[i].hole) = 90
        /\ bricksById[edges[i].from].type = "3x1"
        /\ bricksById[edges[i].to].type = "2x1"
        /\ edges[i].hole.connectedToHole = 3

\* the connection that placed b
PlacingEdge(b) == edges[CHOOSE i \in 1..Len(edges) : edges[i].to = b]

\* sum of the orientation values along the placement path from the base to b
RECURSIVE PathOrientation(_)
PathOrientation(b) ==
    IF b = "1" THEN 0
    ELSE OrientationOf(PlacingEdge(b).hole) + PathOrientation(PlacingEdge(b).from)

(* C8: the yaw of a placed brick is its parent's yaw minus the orientation *)
(* of the placing connection, hence minus the sum of the orientations      *)
(* along its placement path, modulo 360; the base has yaw 0.               *)
C8_YawIsMinusPathSum ==
    /\ "1" \in DOMAIN threeMeshes => threeMeshes["1"].yaw = 0
    /\ \A b \in Placed :
           /\ (threeMeshes[b].yaw + OrientationOf(PlacingEdge(b).hole)) % 360
                  = threeMeshes[PlacingEdge(b).from].yaw
           /\ (threeMeshes[b].yaw + PathOrientation(b)) % 360 = 0

\* brick "3" sits two levels up with orientations 90 and 180 on its path
C8_Witness ==
    /\ "3" \in Placed
    /\ PlacingEdge("3").from = "2"
    /\ OrientationOf(PlacingEdge("3").hole) = 180
    /\ "2" \in Placed
    /\ OrientationOf(PlacingEdge("2").hole) = 90
    /\ threeMeshes["3"].yaw = 90

(* C9: from the moment the base is placed, during the traversal and after  *)
(* it, the base plate is at (0,0,0) with yaw 0 and is the mesh of id "1".  *)
C9_BaseAtOrigin ==
    outcome \in {"running", "ok", "thrown"}
        => /\ basePlateMesh # <<>>
           /\ basePlateMesh[1].pos = <<0, 0, 0>>
           /\ basePlateMesh[1].yaw = 0
           /\ "1" \in DOMAIN threeMeshes
           /\ threeMeshes["1"] = basePlateMesh[1]
           /\ \A i \in 1..Len(structureGroup) : structureGroup[i].brick # "1"

\* a build succeeded although a top socket of a placed brick names the base
C9_Witness ==
    /\ BuildFinished /\ outcome = "ok"
    /\ \E i \in 1..Len(visits) : visits[i].to = "1" /\ visits[i].from # "1"
    /\ Len(structureGroup) >= 2

----------------------------------------------------------------------------
(* buildStructure as a function of the record list, for comparing the      *)
(* build of an input with the build of the same input without its          *)
(* anomalous connections.                                                  *)

RECURSIVE RefHoles(_, _, _, _)
RefHoles(byId, key, i, st) ==
    LET holes == byId[key].holes
    IN  IF i > Len(holes) \/ st.thrown THEN st
        ELSE LET holeData == holes[i]
                 act == HoleAction(byId[key].type, holeData, st.processed, byId)
                 target == String(holeData.brick)
             IN  RefHoles(byId, key, i + 1,
                    CASE act = "skip" -> st
                      [] act = "dangling" ->
                            [st EXCEPT !.processed = MarkProcessed(@, target)]
                      [] act = "place" ->
                            LET newMesh == PlaceMesh(st.meshes[key], byId[key].type, holeData,
                                                     target, byId[target].type)
                            IN  [st EXCEPT !.meshes = Put(@, target, newMesh),
                                           !.group = Append(@, newMesh),
                                           !.processed = MarkProcessed(@, target),
                                           !.queue = Append(@, Str(target))]
                      [] act = "throw" -> [st EXCEPT !.thrown = TRUE])

RECURSIVE RefLoop(_, _)
RefLoop(byId, st) ==
    IF st.queue = <<>> \/ st.thrown THEN st
    ELSE LET key == String(Head(st.queue))
             rest == [st EXCEPT !.queue = Tail(@)]
             iterate == /\ key \in DOMAIN byId /\ key \in DOMAIN st.meshes
                        /\ Truthy(getBrickDefinition(byId[key].type))
                        /\ "holes" \in DOMAIN byId[key]
         IN  RefLoop(byId, IF iterate THEN RefHoles(byId, key, 1, rest) ELSE rest)

\* the meshes by id that buildStructure leaves for the record list
BuildResult(records) ==
    LET byId == IndexRecords(records, EmptyMap)
    IN  IF ~("1" \in DOMAIN byId /\ byId["1"].type = "base") THEN EmptyMap
        ELSE RefLoop(byId, [meshes |-> Put(EmptyMap, "1", BaseMesh),
                            group |-> <<>>,
                            processed |-> MarkProcessed({}, "1"),
                            queue |-> <<byId["1"].id>>,
                            thrown |-> FALSE]).meshes

\* a connection whose target has no record or an uncatalogued type, or
\* which lacks connectedToHole
Anomalous(byId, holeData) ==
    /\ IsConnection(holeData)
    /\ \/ String(holeData.brick) \notin DOMAIN byId
       \/ ~Catalogued(byId[String(holeData.brick)].type)
       \/ "connectedToHole" \notin DOMAIN holeData

\* the record list without its anomalous connections
WithoutAnomalies(records) ==
    LET byId == IndexRecords(records, EmptyMap)
    IN  [i \in 1..Len(records) |->
            IF "holes" \in DOMAIN records[i]
            THEN [records[i] EXCEPT !.holes = SelectSeq(@, LAMBDA h : ~Anomalous(byId, h))]
            ELSE records[i]]

(* C10: with a valid base, a connection whose target has no record or an   *)
(* unknown type, or which lacks connectedToHole, is only skipped: the      *)
(* build runs to completion and every brick that the build of the input    *)
(* without these connections places is placed with the same transform.     *)
C10_AnomaliesAreSkips ==
    (BuildFinished /\ IsArray(structureData) /\ ~LacksBase(structureData.items)
        /\ outcome # "missingBase")
        => /\ outcome = "ok"
           /\ LET expected == BuildResult(WithoutAnomalies(structureData.items))
              IN  \A b \in DOMAIN expected :
                      b \in DOMAIN threeMeshes /\ threeMeshes[b] = expected[b]

----------------------------------------------------------------------------
(* C11: a hole whose brick field is -1, as a number or as a string, never  *)
(* causes a lookup: the id "-1" is never looked up, marked processed,      *)
(* queued or placed, also when the input holds a record with id "-1".      *)
C11_SentinelNeverFollowed ==
    /\ \A i \in 1..Len(lookups) : lookups[i] # "-1"
    /\ "-1" \notin processedBrickIds
    /\ \A i \in 1..Len(queue) : String(queue[i]) # "-1"
    /\ \A i \in 1..Len(pushed) : pushed[i] # "-1"
    /\ "-1" \notin DOMAIN threeMeshes
    /\ \A i \in 1..Len(structureGroup) : structureGroup[i].brick # "-1"

\* a build finished on an input that holds a record with id "-1" and a base
\* hole whose brick is the number -1, after placing another brick
C11_Witness ==
    /\ BuildFinished /\ outcome = "ok"
    /\ "-1" \in DOMAIN bricksById
    /\ \E k \in 1..Len(HolesOf("1")) :
           /\ HolesOf("1")[k].brick = Num(-1)
           /\ "connectedToHole" \in DOMAIN HolesOf("1")[k]
    /\ "22" \in Placed

(* C12: a build of a record list ends as the first build of the same       *)
(* record list ended, with the same outcome, the same base plate and the   *)
(* same sequence of placed bricks with the same transforms, whatever       *)
(* structure was displayed before it.                                      *)
C12_SameInputSameResult ==
    (BuildFinished /\ IsArray(structureData) /\ structureData.items \in DOMAIN firstBuilt)
        => firstBuilt[structureData.items]
             = [outcome |-> outcome, base |-> basePlateMesh, group |-> structureGroup]

\* Json1 was built by init from the empty scene, Json3 was built over it by
\* a click, and a second click has built Json1 again over Json3
C12_Witness ==
    /\ BuildFinished /\ outcome = "ok"
    /\ caller = "cycle"
    /\ jsonData = <<Structure(Json1), Structure(Json3)>>
    /\ currentJsonIndex = 0
    /\ structureData = Array(Json1)
    /\ Json3 \in DOMAIN firstBuilt
    /\ Len(structureGroup) = 1 /\ structureGroup[1].brick = "56"

----------------------------------------------------------------------------
(* Concrete scenarios: the structures of src/index.html.                   *)

(* C13: the build of Json1 (base hole 0 connected to connectedToHole 1 of  *)
(* the 1x1 brick "56", orientation 0) succeeds, places "56" at             *)
(* (-3, 2.4, -3), in tenths (-30, 24, -30), with identity rotation, and    *)
(* places nothing else besides the base.                                   *)
C13_SingleChildAtCorner ==
    (BuildFinished /\ structureData = Array(Json1))
        => /\ outcome = "ok"
           /\ structureGroup = <<[brick |-> "56", type |-> "1x1", pos |-> <<-30, 24, -30>>, yaw |-> 0]>>
           /\ DOMAIN threeMeshes = {"1", "56"}
           /\ basePlateMesh = <<threeMeshes["1"]>>

\* init has built Json1 to the end
C13_Witness ==
    /\ BuildFinished /\ caller = "init"
    /\ structureData = Array(Json1)
    /\ Len(HolesOf("1")) = 16
    /\ "56" \in Placed

(* C14: the build of Json3 (base hole 0 connected to socket 2 of the 2x1   *)
(* brick "22" with orientation 90, base hole 4 to its socket 3) turns "22" *)
(* by a quarter turn about the up axis with the negated sign (yaw -90, 270 *)
(* modulo 360), puts it at the world position of base hole 0 minus the     *)
(* turned offset of socket 2, that is (-3, 2.4, -2), and socket 3 of "22"  *)
(* then lies on base hole 4, as the second recorded connection says.       *)
C14_RotatedTwoByOne ==
    (BuildFinished /\ structureData = Array(Json3))
        => /\ outcome = "ok"
           /\ DOMAIN threeMeshes = {"1", "22"}
           /\ LET base == threeMeshes["1"]
                  brick == threeMeshes["22"]
                  baseHole0 == <<-30, 12, -30>>
                  baseHole4 == <<-30, 12, -10>>
                  \* socket 2 of a 2x1 brick, (-1, -1.2, 0), turned by -90 degrees
                  socket2Turned == <<0, -12, -10>>
              IN  /\ brick.yaw = (360 - 90) % 360
                  /\ SocketWorld(base, "base", 0) = baseHole0
                  /\ brick.pos = <<baseHole0[1] - socket2Turned[1], baseHole0[2] - socket2Turned[2],
                                   baseHole0[3] - socket2Turned[3]>>
                  /\ brick.pos = <<-30, 24, -20>>
                  /\ SocketWorld(base, "base", 4) = baseHole4
                  /\ SocketWorld(brick, "2x1", 3) = baseHole4
                  /\ structureGroup = <<brick>>

\* Json3 was built to the end and both connections to "22" were examined,
\* the first from base hole 0 and the second from base hole 4
C14_Witness ==
    /\ BuildFinished /\ outcome = "ok"
    /\ structureData = Array(Json3)
    /\ Len(visits) = 2
    /\ visits[1].to = "22" /\ visits[1].hole.id = 0 /\ visits[1].hole.connectedToHole = 2
    /\ visits[2].to = "22" /\ visits[2].hole.id = 4 /\ visits[2].hole.connectedToHole = 3
    /\ Len(edges) = 1 /\ edges[1].hole.id = 0

----------------------------------------------------------------------------
(* C15: getBrickDefinition yields a definition for exactly the four types  *)
(* base, 3x1, 2x1 and 1x1 and not-found for every other type string of the *)
(* input; a brick of another type never gets a mesh and never makes the    *)
(* build end by an exception.                                              *)
C15_UnknownTypeIsNotFound ==
    /\ \A k \in DOMAIN bricksById :
           Truthy(getBrickDefinition(bricksById[k].type)) <=> Catalogued(bricksById[k].type)
    /\ \A k \in Placed : Catalogued(bricksById[k].type)
    /\ outcome # "thrown"

\* the socket ids of the layout of each type
Layout(type) ==
    CASE type = "base" -> 0..15
      [] type = "3x1" -> 0..5
      [] type = "2x1" -> 0..3
      [] type = "1x1" -> 0..1
      [] OTHER -> {}

(* C16: no brick is placed from a connection whose hole id is outside the  *)
(* layout of the brick that carries the hole or whose connectedToHole is   *)
(* outside the layout of the connected brick (0..15 for base, 0..5 for     *)
(* 3x1, 0..3 for 2x1, 0..1 for 1x1).                                       *)
C16_NoPlacementOutsideLayout ==
    \A i \in 1..Len(edges) :
        /\ edges[i].hole.id \in Layout(bricksById[edges[i].from].type)
        /\ edges[i].hole.connectedToHole \in Layout(bricksById[edges[i].to].type)

----------------------------------------------------------------------------
(* The layout rules of the catalog, with S = STUD_SIZE and H =              *)
(* PLATE_HEIGHT.                                                           *)

\* the ids of the sockets that accept a child: all of a base, the listed
\* top holes of another type
TopIdsOf(type) == IF type = "base" THEN Layout("base") ELSE TopHoleIds(type)

\* base: ((k mod 4 - 1.5) S, H/2, (floor(k/4) - 1.5) S); 3x1: x is -S, 0, +S;
\* 2x1: x is -S/2, +S/2; 1x1: x is 0; z is 0 for all but the base
RuleOffset(type, k) ==
    CASE type = "base" ->
            <<(k % 4) * STUD_SIZE - (3 * STUD_SIZE) \div 2, PLATE_HEIGHT \div 2,
              (k \div 4) * STUD_SIZE - (3 * STUD_SIZE) \div 2>>
      [] type = "3x1" ->
            <<(CASE k \in {0, 3} -> -STUD_SIZE [] k \in {1, 4} -> 0 [] k \in {2, 5} -> STUD_SIZE),
              (IF k \in {0, 1, 2} THEN PLATE_HEIGHT \div 2 ELSE -(PLATE_HEIGHT \div 2)), 0>>
      [] type = "2x1" ->
            <<(IF k \in {0, 2} THEN -(STUD_SIZE \div 2) ELSE STUD_SIZE \div 2),
              (IF k \in {0, 1} THEN PLATE_HEIGHT \div 2 ELSE -(PLATE_HEIGHT \div 2)), 0>>
      [] type = "1x1" ->
            <<0, (IF k = 0 THEN PLATE_HEIGHT \div 2 ELSE -(PLATE_HEIGHT \div 2)), 0>>

\* the catalog was asked about a socket of the layout of one of the four
\* types and HoleOffsets has returned
AnsweredInLayout ==
    /\ catalogQuery # <<>>
    /\ catalogAnswer # <<>>
    /\ catalogAnswer.offset # <<>>
    /\ Catalogued(catalogQuery.type)
    /\ catalogQuery.holeId \in Layout(catalogQuery.type)

----------------------------------------------------------------------------
(* C18: during and after every build, whatever was built before, the       *)
(* structure group holds exactly the meshes that the connections of the    *)
(* most recent buildStructure call placed, in the order it placed them,    *)
(* and the base plate is the one this call created; when this call ended   *)
(* before placing a base, there is no base plate and the group is empty.   *)
C18_SceneIsLastBuild ==
    /\ Len(structureGroup) = Len(edges)
    /\ \A i \in 1..Len(structureGroup) :
           /\ structureGroup[i].brick = edges[i].to
           /\ edges[i].to \in DOMAIN threeMeshes
           /\ structureGroup[i] = threeMeshes[edges[i].to]
           /\ edges[i].to \in DOMAIN bricksById
           /\ structureGroup[i].type = bricksById[edges[i].to].type
    /\ basePlateMesh # <<>>
           => /\ outcome \in {"running", "ok", "thrown"}
              /\ "1" \in DOMAIN threeMeshes
              /\ basePlateMesh[1] = threeMeshes["1"]
    /\ outcome \in {"none", "notArray", "missingBase"}
           => basePlateMesh = <<>> /\ structureGroup = <<>>

\* Json3 was displayed with its 2x1 brick "22"; a click has built Json1
\* and the scene holds the 1x1 brick "56" only
C18_Witness ==
    /\ BuildFinished /\ outcome = "ok"
    /\ caller = "cycle"
    /\ jsonData = <<Structure(Json3), Structure(Json1)>>
    /\ currentJsonIndex = 1
    /\ Json3 \in DOMAIN firstBuilt /\ Len(firstBuilt[Json3].group) = 1
    /\ Len(structureGroup) = 1 /\ structureGroup[1].type = "1x1"

----------------------------------------------------------------------------
(* The interaction state of the group-clone variant.                       *)

Idle == ~selectedStructureGroup /\ activeCloneGroup = <<>> /\ ~isMovingCloneGroup
Selected == selectedStructureGroup /\ activeCloneGroup = <<>> /\ ~isMovingCloneGroup
Moving == ~selectedStructureGroup /\ activeCloneGroup # <<>> /\ isMovingCloneGroup

(* C19: after every event handler of part_000 the page is in exactly one   *)
(* of the states Idle, Selected and Moving; isMovingCloneGroup is true     *)
(* exactly when activeCloneGroup is not null, and a selection never        *)
(* coexists with a moving clone.                                           *)
C19_IdleSelectedOrMoving ==
    /\ Idle \/ Selected \/ Moving
    /\ ~(Idle /\ Selected) /\ ~(Idle /\ Moving) /\ ~(Selected /\ Moving)
    /\ isMovingCloneGroup <=> (activeCloneGroup # <<>>)
    /\ ~(selectedStructureGroup /\ (isMovingCloneGroup \/ activeCloneGroup # <<>>))

\* a second clone is being moved after a first one was placed: the page
\* went Idle, Selected, Moving, Idle, Selected, Moving
C19_Witness ==
    /\ Moving
    /\ Len(userPlacedGroups) = 1
    /\ activeCloneGroup[1].id = 2
    /\ sceneClones = {1, 2}
    /\ ~controlsEnabled

(* C20: pressing Escape while a clone is being moved cancels the move: the *)
(* handler leaves the active clone out of the scene, the moving flag       *)
(* false, the active-clone reference null, the camera controls enabled     *)
(* and the placed clones as they were.                                     *)
C20_EscapeCancelsMove ==
    (isMovingCloneGroup /\ activeCloneGroup # <<>>)
        => LET after == GC_onKeyDownResult(GC_State, "Escape")
           IN  /\ activeCloneGroup[1].id \notin after.scene
               /\ ~after.moving
               /\ after.active = <<>>
               /\ after.controls
               /\ after.placed = userPlacedGroups

----------------------------------------------------------------------------
\* the ids of the clone groups in userPlacedGroups
PlacedCloneIds == {userPlacedGroups[i].id : i \in 1..Len(userPlacedGroups)}

(* C21: in script6.js every cycleStructure call that moves to another      *)
(* structure leaves userPlacedGroups as it was and every placed clone in   *)
(* the scene, removes a clone that is still being moved and resets the     *)
(* interaction state (no selection, no saved materials, no active clone,   *)
(* moving flag false, controls enabled); clearStructure called in any      *)
(* state removes the structure bricks, the base plate and the moving clone *)
(* and nothing else.                                                       *)
C21_PlacedClonesSurviveSwitches ==
    /\ [][currentJsonIndex' # currentJsonIndex
            => /\ userPlacedGroups' = userPlacedGroups
               /\ PlacedCloneIds \subseteq sceneClones'
               /\ sceneClones' = PlacedCloneIds
               /\ ~selectedStructureGroup'
               /\ originalMaterialsMap' = EmptyMap
               /\ activeCloneGroup' = <<>>
               /\ ~isMovingCloneGroup'
               /\ controlsEnabled']_vars
    /\ [](LET after == S6_clearStructure(GC_State)
          IN  /\ after.group = <<>> /\ after.base = <<>>
              /\ after.placed = userPlacedGroups
              /\ after.scene = PlacedCloneIds
              /\ ~after.sel /\ after.active = <<>> /\ ~after.moving /\ after.controls)

----------------------------------------------------------------------------
\* processedBrickIds[k] reads as true
ReadsProcessed(k) == k \in processedBrickIds \/ k \in {"constructor", "toString"}

\* how often the record of k was looked up
LookupCount(k) == Cardinality({i \in 1..Len(lookups) : lookups[i] = k})

\* the ids without record that a top-socket connection examined so far names
DanglingTargets == {visits[i].to : i \in 1..Len(visits)} \ DOMAIN bricksById

----------------------------------------------------------------------------
\* the step examines a top-socket connection that lacks connectedToHole and
\* names a brick that has a record
ExaminesIncompleteEdge ==
    /\ Len(visits') = Len(visits) + 1
    /\ LET v == visits'[Len(visits')]
       IN  ~CarriesToHole(v) /\ v.to \in DOMAIN bricksById

(* C23: examining a top-socket connection without connectedToHole places   *)
(* nothing and marks nothing: meshes, structure group, processed set and   *)
(* queue stay as they are; and when a later connection in BFS order names  *)
(* the same brick (a record of a catalogued type) and carries              *)
(* connectedToHole, the brick has a mesh once that connection was          *)
(* examined.                                                               *)
C23_IncompleteEdgeOnlySkipped ==
    /\ [][ExaminesIncompleteEdge
            => UNCHANGED <<threeMeshes, structureGroup, processedBrickIds, queue>>]_vars
    /\ [](\A i, j \in 1..Len(visits) :
              (/\ i < j
               /\ visits[i].to = visits[j].to
               /\ ~CarriesToHole(visits[i])
               /\ CarriesToHole(visits[j])
               /\ visits[j].to \in DOMAIN bricksById
               /\ Catalogued(bricksById[visits[j].to].type))
                  => visits[j].to \in DOMAIN threeMeshes)

----------------------------------------------------------------------------
\* number of placing connections between the base and b
RECURSIVE Depth(_)
Depth(b) == IF b = "1" THEN 0 ELSE 1 + Depth(PlacingEdge(b).from)

\* position of the hole h in the hole list of brick a
HoleIndex(a, h) ==
    CHOOSE k \in 1..Len(HolesOf(a)) :
        HolesOf(a)[k] = h /\ \A m \in 1..(k - 1) : HolesOf(a)[m] # h

(* C24: every id in the queue, hence every id the loop dequeues, has a     *)
(* record and a mesh with its world transform; the bricks are placed       *)
(* level by level, a brick placed from a parent at depth d before every    *)
(* brick placed from a parent at a greater depth, and the children of one  *)
(* parent in the order of its hole list.                                   *)
C24_BreadthFirstOrder ==
    /\ \A i \in 1..Len(queue) :
           String(queue[i]) \in DOMAIN bricksById /\ String(queue[i]) \in DOMAIN threeMeshes
    /\ cur # <<>> => String(cur[1]) \in DOMAIN bricksById /\ String(cur[1]) \in DOMAIN threeMeshes
    /\ \A i \in 1..Len(edges) :
           /\ edges[i].from \in DOMAIN threeMeshes
           /\ structureGroup[i].brick = edges[i].to
    /\ \A i, j \in 1..Len(edges) :
           i < j => /\ Depth(edges[i].from) <= Depth(edges[j].from)
                    /\ edges[i].from = edges[j].from
                          => HoleIndex(edges[i].from, edges[i].hole)
                               < HoleIndex(edges[j].from, edges[j].hole)

\* the build of TwoBranches has ended: "2" and "3" were placed from the
\* base, then "4" from "2" and "5" from "3", then "6" from "5"
C24_Witness ==
    /\ BuildFinished /\ outcome = "ok"
    /\ structureData = Array(TwoBranches)
    /\ [i \in 1..Len(edges) |-> edges[i].to] = <<"2", "3", "4", "5", "6">>
    /\ Depth("6") = 3 /\ Depth("4") = 2

----------------------------------------------------------------------------
\* the last record of the input whose normalized id is k
LastRecord(records, k) ==
    records[CHOOSE i \in RecordsWithId(records, k) : \A j \in RecordsWithId(records, k) : j <= i]

NormalizedIds(records) ==
    {String(records[i].id) : i \in {j \in 1..Len(records) : "id" \in DOMAIN records[j]}}

(* C25: the index of a record list holds, for every normalized id, the     *)
(* last record with that id in input order; the type of a mesh and the     *)
(* holes the build examines are those of that record; and a build whose    *)
(* last record with id "1" is not of type base ends as missing base with   *)
(* nothing displayed, also when an earlier record with id "1" is a base.   *)
C25_LastRecordWins ==
    (IsArray(structureData) /\ outcome # "none") =>
        LET records == structureData.items
        IN  /\ DOMAIN bricksById = NormalizedIds(records)
            /\ \A k \in DOMAIN bricksById : bricksById[k] = LastRecord(records, k)
            /\ \A k \in DOMAIN threeMeshes : threeMeshes[k].type = LastRecord(records, k).type
            /\ \A i \in 1..Len(visits) :
                   LET from == LastRecord(records, visits[i].from)
                   IN  \E h \in 1..Len(from.holes) : from.holes[h] = visits[i].hole
            /\ ("1" \in NormalizedIds(records) /\ LastRecord(records, "1").type # "base")
                   => /\ outcome = "missingBase"
                      /\ basePlateMesh = <<>>
                      /\ structureGroup = <<>>

\* the build of DuplicateBase has ended as missing base: its first record
\* is a base with id "1", its last record has the id 1 and the type 1x1
C25_Witness ==
    /\ BuildFinished /\ outcome = "missingBase"
    /\ structureData = Array(DuplicateBase)
    /\ structureData.items[1].type = "base" /\ String(structureData.items[1].id) = "1"
    /\ Cardinality(RecordsWithId(structureData.items, "1")) = 2
    /\ bricksById["1"].type = "1x1"

----------------------------------------------------------------------------
\* the string form of an id or of a reference: a string is itself, an
\* integer is its decimal numeral
CanonicalId(v) ==
    IF "str" \in DOMAIN v THEN v
    ELSE Str(IF v.num < 0 THEN "-" \o NatStr(-v.num) ELSE NatStr(v.num))

CanonicalHole(h) == IF "brick" \in DOMAIN h THEN [h EXCEPT !.brick = CanonicalId(@)] ELSE h

CanonicalRecord(r) ==
    LET withId == IF "id" \in DOMAIN r THEN [r EXCEPT !.id = CanonicalId(@)] ELSE r
    IN  IF "holes" \in DOMAIN r
        THEN [withId EXCEPT !.holes = [k \in 1..Len(r.holes) |-> CanonicalHole(r.holes[k])]]
        ELSE withId

\* the record list with every id and every reference in its string form
Canonical(records) == [i \in 1..Len(records) |-> CanonicalRecord(records[i])]

(* C26: a build leaves the meshes, with the same ids and transforms, that  *)
(* the build of the record list with every id and reference replaced by    *)
(* its string form leaves; a brick has a mesh only when a record carries    *)
(* an id with the same string form; and every record list of FormInputs     *)
(* (ids 1 and 22 and the references to them written as numbers or as        *)
(* strings in every combination) places exactly brick "22" on base hole 0,  *)
(* at (-3, 2.4, -3) turned by -90 degrees.                                  *)
C26_IdsCompareAsStrings ==
    (BuildFinished /\ IsArray(structureData)) =>
        LET records == structureData.items
        IN  /\ threeMeshes = BuildResult(Canonical(records))
            /\ \A b \in DOMAIN threeMeshes :
                   \E i \in 1..Len(records) :
                       "id" \in DOMAIN records[i] /\ CanonicalId(records[i].id) = Str(b)
            /\ records \in FormInputs
                   => /\ outcome = "ok"
                      /\ DOMAIN threeMeshes = {"1", "22"}
                      /\ structureGroup = <<[brick |-> "22", type |-> "1x1",
                                             pos |-> <<-30, 24, -30>>, yaw |-> 270]>>

\* a build has ended on a record list that writes the ids as the numbers 1
\* and 22 and the references to them as the strings "22" and "1"
C26_Witness ==
    /\ BuildFinished /\ outcome = "ok"
    /\ structureData.items \in FormInputs
    /\ structureData.items[1].id = Num(1)
    /\ structureData.items[2].id = Num(22)
    /\ structureData.items[1].holes[1].brick = Str("22")
    /\ structureData.items[2].holes[2].brick = Str("1")
    /\ "22" \in Placed

----------------------------------------------------------------------------
\* hole h of record a is a top-socket connection between two bricks of
\* catalogued types
TypedEdge(byId, a, h, b) ==
    /\ IsConnection(h)
    /\ String(h.brick) = b
    /\ Catalogued(byId[a].type)
    /\ TopSocket(byId[a].type, h.id)
    /\ b \in DOMAIN byId
    /\ Catalogued(byId[b].type)

RECURSIVE TypedReachFrom(_, _)
TypedReachFrom(byId, R) ==
    LET more == {b \in DOMAIN byId :
                    \E a \in R : \E i \in 1..Len(HolesIn(byId, a)) :
                        TypedEdge(byId, a, HolesIn(byId, a)[i], b)}
    IN  IF more \subseteq R THEN R ELSE TypedReachFrom(byId, R \cup more)

\* the bricks that a path of top-socket connections through bricks of
\* catalogued types only joins to the base
TypedReach ==
    IF "1" \in DOMAIN bricksById THEN TypedReachFrom(bricksById, {"1"}) ELSE {}

(* C27: a brick other than the base whose type is none of base, 3x1, 2x1   *)
(* and 1x1 never has a mesh, is never in the structure group and is never  *)
(* enqueued; no hole of such a brick is ever examined; and a brick has a   *)
(* mesh only when a path of top-socket connections through bricks of       *)
(* catalogued types joins it to the base.                                  *)
C27_UnknownTypeSubtreeNotEmitted ==
    /\ \A k \in Placed : Catalogued(bricksById[k].type)
    /\ \A i \in 1..Len(structureGroup) : Catalogued(bricksById[structureGroup[i].brick].type)
    /\ \A i \in 1..Len(pushed) : Catalogued(bricksById[pushed[i]].type)
    /\ \A i \in 1..Len(queue) : Catalogued(bricksById[String(queue[i])].type)
    /\ cur # <<>> => Catalogued(bricksById[String(cur[1])].type)
    /\ \A i \in 1..Len(visits) : Catalogued(bricksById[visits[i].from].type)
    /\ Placed \subseteq TypedReach

\* a build has ended in which the base names brick "2" of the type 4x4,
\* which got no mesh, and brick "3", which only connections of "2" and of
\* unplaced bricks name, got none either
C27_Witness ==
    /\ BuildFinished /\ outcome = "ok"
    /\ "2" \in DOMAIN bricksById /\ bricksById["2"].type = "4x4"
    /\ \E i \in 1..Len(visits) : visits[i].from = "1" /\ visits[i].to = "2"
    /\ "2" \notin DOMAIN threeMeshes
    /\ "3" \in DOMAIN bricksById /\ Catalogued(bricksById["3"].type)
    /\ \E k \in 1..Len(HolesOf("2")) : String(HolesOf("2")[k].brick) = "3"
    /\ "3" \notin DOMAIN threeMeshes
    /\ \A i \in 1..Len(visits) : visits[i].to # "3"

----------------------------------------------------------------------------
\* the index after n consecutive calls of cycleStructure that start at
\* index i with length structures loaded
RECURSIVE CycledTimes(_, _, _)
CycledTimes(i, length, n) ==
    IF n = 0 THEN i ELSE CycledTimes(nextJsonIndex(i, length), length, n - 1)

(* C28: while structures are loaded currentJsonIndex is at least 0 and     *)
(* less than jsonData.length; a cycleStructure call (the only step taken   *)
(* while no handler runs) moves it to the next index, and from the last    *)
(* index to 0; no other step changes it; and jsonData.length calls in a    *)
(* row bring it back to where it is.                                       *)
C28_IndexCyclesModuloLength ==
    /\ [](Len(jsonData) > 0 =>
            /\ currentJsonIndex \in 0..(Len(jsonData) - 1)
            /\ CycledTimes(currentJsonIndex, Len(jsonData), Len(jsonData)) = currentJsonIndex
            /\ \A n \in 1..(Len(jsonData) - 1) :
                  CycledTimes(currentJsonIndex, Len(jsonData), n) # currentJsonIndex)
    /\ [][(pc = "idle" /\ Len(jsonData) > 0) =>
            currentJsonIndex' = IF currentJsonIndex = Len(jsonData) - 1 THEN 0
                                ELSE currentJsonIndex + 1]_vars
    /\ [][pc # "idle" => currentJsonIndex' = currentJsonIndex]_vars

\* two structures are loaded and the second call of cycleStructure has
\* brought the index back to 0: the structure shown was built for a click
\* and is the first of the file, which differs from the second
C28_Witness ==
    /\ Len(jsonData) = 2
    /\ currentJsonIndex = 0
    /\ pc = "idle" /\ caller = "cycle" /\ outcome = "ok"
    /\ structureData = jsonData[1].data
    /\ jsonData[1] # jsonData[2]

----------------------------------------------------------------------------
\* the meshes in the scene: the base plate and the children of the
\* structure group
Displayed ==
    (IF basePlateMesh = <<>> THEN {} ELSE {basePlateMesh[1]})
        \cup {structureGroup[i] : i \in 1..Len(structureGroup)}

\* the meshes that building the entry gives: none when its data is not an
\* array or has no base
ResultOfEntry(entry) ==
    IF IsArray(entry.data)
    THEN {BuildResult(entry.data.items)[k] : k \in DOMAIN BuildResult(entry.data.items)}
    ELSE {}

\* a step that ends a cycleStructure call with structures loaded: the call
\* returns without a build loop, or the build loop it started ends
EndsCycleCall ==
    /\ Len(jsonData) > 0
    /\ pc' = "idle"
    /\ \/ pc = "idle"
       \/ pc = "bfs" /\ caller = "cycle"

(* C29: when a cycleStructure call has ended, the meshes in the scene are  *)
(* those that building jsonData[currentJsonIndex].data gives, and none     *)
(* when that entry has no data array or no base.                           *)
C29_ShownIsCurrentEntry ==
    [][EndsCycleCall => Displayed' = ResultOfEntry(jsonData'[currentJsonIndex' + 1])]_vars

----------------------------------------------------------------------------
(* C30: while init awaits the fetch, currentJsonIndex is 0, jsonData is    *)
(* empty, nothing has been built and the scene is empty, however many      *)
(* clicks on the cycle button were handled; such a click changes nothing   *)
(* of the program's state; and the step that ends the wait with structures *)
(* loaded starts the build of jsonData[0].data, called by init, with       *)
(* currentJsonIndex 0, whether or not a click was handled before.          *)
C30_ClickWhileLoadingIsNoOp ==
    /\ [](pc = "loading" =>
            /\ currentJsonIndex = 0
            /\ jsonData = <<>>
            /\ ~cycleBtnDisabled
            /\ outcome = "none"
            /\ Displayed = {}
            /\ firstBuilt = EmptyMap
            /\ pushed = <<>> /\ visits = <<>> /\ threeMeshes = EmptyMap)
    /\ [][(pc = "loading" /\ pc' = "loading") => UNCHANGED programState]_vars
    /\ [][(pc = "loading" /\ Len(jsonData') > 0) =>
            /\ currentJsonIndex' = 0
            /\ caller' = "init"
            /\ structureData' = jsonData'[1].data
            /\ clickedWhileLoading' = clickedWhileLoading]_vars

\* a click was handled before the file with two different structures
\* arrived, and the build that init started has ended: the first structure
\* is shown and the index is 0
C30_Witness ==
    /\ clickedWhileLoading
    /\ Len(jsonData) = 2 /\ jsonData[1] # jsonData[2]
    /\ currentJsonIndex = 0
    /\ BuildFinished /\ outcome = "ok" /\ caller = "init"
    /\ structureData = jsonData[1].data
    /\ Displayed = ResultOfEntry(jsonData[1])
    /\ Displayed # {}

----------------------------------------------------------------------------
\* the next entry of the clone variant's file, and whether cycleStructure
\* would build it
NextEntry == jsonData[((currentJsonIndex + 1) % Len(jsonData)) + 1]
NextIsValid ==
    /\ pc = "idle" /\ ~cycleBtnDisabled
    /\ Len(jsonData) > 0
    /\ IsArray(NextEntry.data)

\* the page as the claim describes Idle: nothing selected, no saved
\* material, no clone being moved, controls enabled, no clone in the scene
FullyIdle(u) ==
    /\ ~u.sel
    /\ u.map = EmptyMap
    /\ u.active = <<>>
    /\ ~u.moving
    /\ u.controls
    /\ u.placed = <<>>
    /\ u.scene = {}

(* C31: in part_000, in every state from which a click on the cycle button *)
(* goes to an entry with a data array, the page that cycleStructure leaves *)
(* is Idle with an empty highlight map, enabled controls and no clone      *)
(* group, placed or moving, in the scene; and every step that changes      *)
(* currentJsonIndex to such an entry ends in that page.                    *)
C31_CycleEndsIdle ==
    /\ [](NextIsValid =>
            FullyIdle(GC_buildStructure(GC_clearStructure(GC_State), NextEntry.data)))
    /\ [][(currentJsonIndex' # currentJsonIndex /\ IsArray(jsonData'[currentJsonIndex' + 1].data))
            => /\ FullyIdle(GC_State')
               /\ Idle']_vars

\* cycleStructure was called while a second clone was being moved and a
\* first one was placed; the page is Idle and no clone is in the scene
C31_Witness ==
    /\ cycledFrom # <<>>
    /\ cycledFrom[1].moving /\ cycledFrom[1].placed
    /\ FullyIdle(GC_State)
    /\ outcome = "ok"
    /\ Len(structureGroup) > 0

----------------------------------------------------------------------------
(* C33: in part_000, after every handler, every mesh of structureGroup has *)
(* a material, which is its build-time material or the highlight material; *)
(* the structure is selected exactly when it has meshes and all of them    *)
(* carry the highlight material, and then the map holds the build-time     *)
(* material of every mesh; when nothing is selected every mesh carries its *)
(* build-time material and the map is empty.                               *)
C33_HighlightFollowsSelection ==
    /\ Len(meshMaterial) = Len(structureGroup)
    /\ \A i \in 1..Len(meshMaterial) : meshMaterial[i] \in {"own", "highlight"}
    /\ selectedStructureGroup <=>
           /\ Len(meshMaterial) > 0
           /\ \A i \in 1..Len(meshMaterial) : meshMaterial[i] = "highlight"
    /\ selectedStructureGroup =>
           /\ DOMAIN originalMaterialsMap = 1..Len(meshMaterial)
           /\ \A i \in 1..Len(meshMaterial) : originalMaterialsMap[i] = "own"
    /\ ~selectedStructureGroup =>
           /\ \A i \in 1..Len(meshMaterial) : meshMaterial[i] = "own"
           /\ originalMaterialsMap = EmptyMap

\* the structure is selected again after a clone of it was made and
\* placed: its mesh is highlighted a second time
C33_Witness ==
    /\ selectedStructureGroup
    /\ Len(userPlacedGroups) = 1
    /\ Len(meshMaterial) > 0
    /\ \A i \in 1..Len(meshMaterial) : meshMaterial[i] = "highlight"

----------------------------------------------------------------------------
\* the meshes by id that buildStructure of part_000 and script6.js leaves
\* for the record list
GC_BuildResult(records) ==
    LET byId == IndexRecords(records, EmptyMap)
    IN  IF ~("1" \in DOMAIN byId /\ byId["1"].type = "base") THEN EmptyMap
        ELSE GC_Loop(byId, [meshes |-> Put(EmptyMap, "1", BaseMesh),
                            group |-> <<>>,
                            processed |-> MarkProcessed({}, "1"),
                            queue |-> <<byId["1"].id>>,
                            thrown |-> FALSE]).meshes

\* the socket ids of a 2x1 brick
TwoByOneSockets == 0..3

(* C38: the 2x1 offset function of script.js and that of part_000 and      *)
(* script6.js give the same offset for the socket ids 0 to 3, and for      *)
(* every record list the build of script.js and the build of part_000      *)
(* leave the same meshes at the same places.                               *)
C38_VariantsPlaceIdentically ==
    /\ \A k \in TwoByOneSockets : GC_HoleOffsets("2x1", k) = HoleOffsets("2x1", k)
    /\ IsArray(structureData) =>
           GC_BuildResult(structureData.items) = BuildResult(structureData.items)

----------------------------------------------------------------------------
\* the loop of buildStructure is running or has run
InOrAfterLoop == outcome \in {"running", "ok", "thrown"}

(* C37: while the loop of buildStructure runs and after it, every id in    *)
(* the queue is a property of processedBrickIds and has a record and a     *)
(* mesh; every id with a mesh is a property of processedBrickIds; the      *)
(* properties of processedBrickIds without mesh are exactly the ids        *)
(* without record that the connections examined so far name; and there are *)
(* at most as many meshes as records with distinct ids.                    *)
C37_LoopInvariants ==
    InOrAfterLoop =>
        /\ \A i \in 1..Len(queue) :
               /\ String(queue[i]) \in processedBrickIds
               /\ String(queue[i]) \in DOMAIN bricksById
               /\ String(queue[i]) \in DOMAIN threeMeshes
        /\ DOMAIN threeMeshes \subseteq processedBrickIds
        /\ processedBrickIds \ DOMAIN threeMeshes = DanglingTargets
        /\ Cardinality(DOMAIN threeMeshes) <= Cardinality(DOMAIN bricksById)

----------------------------------------------------------------------------
----------------------------------------------------------------------------
\* C34: in script3.js, when 'c' places the clone of a selected brick, the
\* material of the placed clone is the material the selected brick had
\* before it was highlighted (the one the build gave it), it is opaque, and
\* it is not the shared highlightMaterial.
C34_PlacedCloneHasOriginalMaterial ==
    [][Len(userBricks') = Len(userBricks) + 1 /\ selectedOriginal # <<>>
           => LET material == userBricks'[Len(userBricks')].material
              IN  /\ material = BuildMaterial(selectedOriginal[1])
                  /\ ~material.transparent
                  /\ material # highlightMaterial]_vars

----------------------------------------------------------------------------
ArrowKeys == {"ArrowUp", "ArrowDown", "ArrowLeft", "ArrowRight"}

OnGrid(pos) ==
    /\ pos[1] % STUD_SIZE = 0
    /\ pos[3] % STUD_SIZE = 0
    /\ pos[2] = GRID_Y_POSITION + PLATE_HEIGHT \div 2

\* exactly one of x and z differs, by exactly STUD_SIZE
OneStudApart(p, q) ==
    /\ p[2] = q[2]
    /\ \/ Abs(p[1] - q[1]) = STUD_SIZE /\ p[3] = q[3]
       \/ Abs(p[3] - q[3]) = STUD_SIZE /\ p[1] = q[1]

\* the position of the moving clone of script3.js after the keys of ks
RECURSIVE S3_AfterKeys(_, _)
S3_AfterKeys(u, ks) ==
    IF ks = <<>> THEN u.activeClone[1].pos
    ELSE S3_AfterKeys(S3_onKeyDownResult(u, Head(ks)), Tail(ks))

\* the position of the moving clone group of part_000 after the keys of ks
RECURSIVE GC_AfterKeys(_, _)
GC_AfterKeys(u, ks) ==
    IF ks = <<>> THEN u.active[1].pos
    ELSE GC_AfterKeys(GC_onKeyDownResult(u, Head(ks)), Tail(ks))

----------------------------------------------------------------------------
\* C36: in script2.js the camera controls are disabled as long as a brick
\* is dragged, whatever pointermove events, pointerup events of other
\* buttons and 'start' and 'end' events of OrbitControls come in between;
\* and isDragging is true exactly when clonedMesh is not null.
C36_ControlsOffWhileDragging ==
    /\ isDragging => ~controlsEnabled
    /\ isDragging <=> clonedMesh # <<>>

====
